---- MODULE Spec2Model ----
(***************************************************************************)
(* A model of the record transformation and merge engine of                *)
(* src/streamlit_app.py (class AlarmTransformer).                          *)
(*                                                                         *)
(* Python text is modelled as a sequence of one-character strings, so that *)
(* strip, upper, lower, replace and the substring test are computed        *)
(* character by character, as the code computes them.  A CSV row is a      *)
(* sequence of such texts.  TLA+ sequences are 1-based: the Python cell    *)
(* row[k] is row[k + 1] here, read through Cell(row, k).                   *)
(***************************************************************************)
EXTENDS Integers, Sequences, FiniteSets, TLC

VARIABLES
    pc,             \* position of the running call
    config,         \* self.config, the resolved client profile
    stats,          \* self.stats
    call,           \* the arguments of the running call
    result,         \* what the call returned or raised
    headers,        \* transform_reverse: the PHA-Pro export's header row
    pha_changes,    \* transform_reverse: (tag_name, alarm_type) -> change entry
    last_tag_name,  \* transform_reverse: last non-blank tag name read
    last_tag_source,\* transform_reverse: last tag source read
    seen_keys,      \* transform_reverse: keys already emitted
    seen_tags,      \* transform_reverse: tags already counted
    n_pha,          \* transform_reverse: number of PHA-Pro data rows read
    rows,           \* the data rows of the output, in order
    header_row,     \* the header row written before the data rows (<<>>: none)
    source_rows,    \* history: for each emitted row, the row it was built from
    n_read,         \* number of input rows read so far in the running loop
    schemas,        \* parse_dynamo_csv: the four sub-tables, keyed by tag name
    file_rows,      \* history: the rows of the DCS export or ABB frame read so far
    abb_tags,       \* parse_abb_excel: the tag records built so far
    rows_list,      \* the PHA-Pro export's data rows read so far (rows_list[1:])
    original_rows,  \* source_data['rows'] read so far
    change_records, \* generate_change_report: the records of the report
    stats_obj,      \* the identity of the dict self.stats refers to
    returned        \* history: the stats dicts earlier calls returned, and their values

vars == <<pc, config, stats, call, result, headers, pha_changes, last_tag_name,
          last_tag_source, seen_keys, seen_tags, n_pha, rows, header_row,
          source_rows, n_read, schemas, file_rows, abb_tags, rows_list,
          original_rows, change_records, stats_obj, returned>>

reverseVars == <<headers, pha_changes, last_tag_name, last_tag_source, seen_keys,
                 seen_tags, n_pha>>

outputVars == <<rows, header_row, source_rows, n_read>>

forwardVars == <<schemas, file_rows, abb_tags>>

reportVars == <<rows_list, original_rows, change_records>>

sessionVars == <<stats_obj, returned>>

(***************************************************************************)
(* Text helpers (Python str methods)                                       *)
(***************************************************************************)
LowerLetters == <<"a","b","c","d","e","f","g","h","i","j","k","l","m","n","o","p","q","r","s","t","u","v","w","x","y","z">>
UpperLetters == <<"A","B","C","D","E","F","G","H","I","J","K","L","M","N","O","P","Q","R","S","T","U","V","W","X","Y","Z">>

IndexIn(c, letters) == CHOOSE i \in 1..Len(letters) : letters[i] = c

OneOf(c, letters) == \E i \in 1..Len(letters) : letters[i] = c

UpperChar(c) == IF OneOf(c, LowerLetters) THEN UpperLetters[IndexIn(c, LowerLetters)] ELSE c

LowerChar(c) == IF OneOf(c, UpperLetters) THEN LowerLetters[IndexIn(c, UpperLetters)] ELSE c

\* str.upper()
upper(s) == [i \in 1..Len(s) |-> UpperChar(s[i])]

\* str.lower()
lower(s) == [i \in 1..Len(s) |-> LowerChar(s[i])]

IsSpace(c) == c \in {" ", "\t"}

SetMin(S) == CHOOSE x \in S : \A y \in S : x <= y

SetMax(S) == CHOOSE x \in S : \A y \in S : x >= y

\* str.strip(): leading and trailing whitespace removed
RECURSIVE FirstSolid(_, _)
FirstSolid(s, i) ==
    IF i > Len(s) THEN i ELSE IF IsSpace(s[i]) THEN FirstSolid(s, i + 1) ELSE i

RECURSIVE LastSolid(_, _)
LastSolid(s, i) ==
    IF i < 1 THEN 0 ELSE IF IsSpace(s[i]) THEN LastSolid(s, i - 1) ELSE i

strip(s) == SubSeq(s, FirstSolid(s, 1), LastSolid(s, Len(s)))

\* `sub in s` for two texts
contains(sub, s) ==
    \/ sub = <<>>
    \/ \E i \in 1..(Len(s) - Len(sub) + 1) :
          s[i] = sub[1] /\ SubSeq(s, i, i + Len(sub) - 1) = sub

\* s.startswith(p)
startswith(s, p) == Len(p) <= Len(s) /\ SubSeq(s, 1, Len(p)) = p

\* s.replace(c, ''): every occurrence of the character c removed
remove(s, c) == SelectSeq(s, LAMBDA x : x # c)

\* `x in [a, b, ...]` for a text and a list of texts
InList(x, list) == \E i \in 1..Len(list) : list[i] = x

Digits == <<"0","1","2","3","4","5","6","7","8","9">>

IsDigit(c) == OneOf(c, Digits)

(***************************************************************************)
(* Numbers in text: float(), str(int()) and the g format                   *)
(*                                                                         *)
(* Covered: an optional sign, digits with at most one decimal point, and   *)
(* the words inf, infinity and nan, with surrounding whitespace.  The      *)
(* model's inputs use no exponent and no underscore notation, have at most *)
(* six significant digits and a magnitude of at least 0.0001, where the g  *)
(* format prints the digits given with trailing zeros removed.             *)
(***************************************************************************)
\* The text float() reads, without surrounding whitespace and sign
FloatBody(s) ==
    LET t == strip(s)
    IN  IF t # <<>> /\ t[1] \in {"+", "-"} THEN Tail(t) ELSE t

IsNegative(s) == LET t == strip(s) IN t # <<>> /\ t[1] = "-"

\* float(s): "finite", "inf", "nan", or "error" for ValueError
FloatKind(s) ==
    LET u == FloatBody(s)
    IN  IF lower(u) \in {<<"i","n","f">>, <<"i","n","f","i","n","i","t","y">>} THEN "inf"
        ELSE IF lower(u) = <<"n","a","n">> THEN "nan"
        ELSE IF /\ \A i \in 1..Len(u) : IsDigit(u[i]) \/ u[i] = "."
                /\ Cardinality({i \in 1..Len(u) : u[i] = "."}) <= 1
                /\ \E i \in 1..Len(u) : IsDigit(u[i])
             THEN "finite"
             ELSE "error"

RECURSIVE StripLeadingZeros(_)
StripLeadingZeros(d) ==
    IF d # <<>> /\ Head(d) = "0" THEN StripLeadingZeros(Tail(d)) ELSE d

RECURSIVE StripTrailingZeros(_)
StripTrailingZeros(d) ==
    IF d # <<>> /\ d[Len(d)] = "0" THEN StripTrailingZeros(SubSeq(d, 1, Len(d) - 1)) ELSE d

\* str(int(num)) if num == int(num) else f"{num:g}", for a text float() reads as finite
FormatNumber(s) ==
    LET u == FloatBody(s)
        dots == {i \in 1..Len(u) : u[i] = "."}
        dot == IF dots = {} THEN Len(u) + 1 ELSE SetMin(dots)
        whole == StripLeadingZeros(SubSeq(u, 1, dot - 1))
        frac == StripTrailingZeros(SubSeq(u, dot + 1, Len(u)))
        int_text == IF whole = <<>> THEN <<"0">> ELSE whole
        sign == IF IsNegative(s) /\ (whole # <<>> \/ frac # <<>>) THEN <<"-">> ELSE <<>>
    IN  IF frac = <<>> THEN sign \o int_text ELSE sign \o int_text \o <<".">> \o frac

(***************************************************************************)
(* Derivation rules                                                        *)
(***************************************************************************)
\* The mapping table of map_priority with the Journal entry given status Alarm.
map_priority_JournalAlarm(priority, disabled_value) ==
    LET p == IF priority # <<>> THEN lower(strip(priority)) ELSE <<>>
        hit == CASE p = <<"u","r","g","e","n","t">>   -> <<<<"U">>, <<"A","l","a","r","m">>>>
                 [] p = <<"c","r","i","t","i","c","a","l">> -> <<<<"C">>, <<"A","l","a","r","m">>>>
                 [] p = <<"h","i","g","h">>     -> <<<<"H">>, <<"A","l","a","r","m">>>>
                 [] p = <<"m","e","d","i","u","m">>   -> <<<<"M">>, <<"A","l","a","r","m">>>>
                 [] p = <<"l","o","w">>      -> <<<<"L">>, <<"A","l","a","r","m">>>>
                 [] p = <<"j","o","u","r","n","a","l">>  -> <<<<"J">>, <<"A","l","a","r","m">>>>
                 [] p = <<"n","o","n","e">>     -> <<<<"N">>, <<"N","o","n","e">>>>
                 [] p = <<"n","o","a","c","t","i","o","n">> -> <<<<"N","A">>, <<"N","o","n","e">>>>
                 [] OTHER            -> <<<<"N">>, <<"N","o","n","e">>>>
        code == hit[1]
        status == hit[2]
    IN  IF code = <<"J">> /\ upper(disabled_value) = <<"F","A","L","S","E">>
        THEN <<<<"J","o">>, status>>
        ELSE <<code, status>>

\* map_priority comparing the disabled flag without upper().
map_priority_NoUpper(priority, disabled_value) ==
    LET p == IF priority # <<>> THEN lower(strip(priority)) ELSE <<>>
        hit == CASE p = <<"u","r","g","e","n","t">>   -> <<<<"U">>, <<"A","l","a","r","m">>>>
                 [] p = <<"c","r","i","t","i","c","a","l">> -> <<<<"C">>, <<"A","l","a","r","m">>>>
                 [] p = <<"h","i","g","h">>     -> <<<<"H">>, <<"A","l","a","r","m">>>>
                 [] p = <<"m","e","d","i","u","m">>   -> <<<<"M">>, <<"A","l","a","r","m">>>>
                 [] p = <<"l","o","w">>      -> <<<<"L">>, <<"A","l","a","r","m">>>>
                 [] p = <<"j","o","u","r","n","a","l">>  -> <<<<"J">>, <<"E","v","e","n","t">>>>
                 [] p = <<"n","o","n","e">>     -> <<<<"N">>, <<"N","o","n","e">>>>
                 [] p = <<"n","o","a","c","t","i","o","n">> -> <<<<"N","A">>, <<"N","o","n","e">>>>
                 [] OTHER            -> <<<<"N">>, <<"N","o","n","e">>>>
        code == hit[1]
        status == hit[2]
    IN  IF code = <<"J">> /\ disabled_value = <<"F","A","L","S","E">>
        THEN <<<<"J","o">>, status>>
        ELSE <<code, status>>

\* AlarmTransformer.map_priority: (code, status) of a priority name
map_priority(priority, disabled_value) ==
    LET p == IF priority # <<>> THEN lower(strip(priority)) ELSE <<>>
        hit == CASE p = <<"u","r","g","e","n","t">>   -> <<<<"U">>, <<"A","l","a","r","m">>>>
                 [] p = <<"c","r","i","t","i","c","a","l">> -> <<<<"C">>, <<"A","l","a","r","m">>>>
                 [] p = <<"h","i","g","h">>     -> <<<<"H">>, <<"A","l","a","r","m">>>>
                 [] p = <<"m","e","d","i","u","m">>   -> <<<<"M">>, <<"A","l","a","r","m">>>>
                 [] p = <<"l","o","w">>      -> <<<<"L">>, <<"A","l","a","r","m">>>>
                 [] p = <<"j","o","u","r","n","a","l">>  -> <<<<"J">>, <<"E","v","e","n","t">>>>
                 [] p = <<"n","o","n","e">>     -> <<<<"N">>, <<"N","o","n","e">>>>
                 [] p = <<"n","o","a","c","t","i","o","n">> -> <<<<"N","A">>, <<"N","o","n","e">>>>
                 [] OTHER            -> <<<<"N">>, <<"N","o","n","e">>>>
        code == hit[1]
        status == hit[2]
    IN  IF code = <<"J">> /\ upper(disabled_value) = <<"F","A","L","S","E">>
        THEN <<<<"J","o">>, status>>
        ELSE <<code, status>>

\* AlarmTransformer.DISCRETE_ALARM_TYPES
DISCRETE_ALARM_TYPES ==
    << <<"c","o","n","t","r","o","l","f","a","i","l">>, <<"s","t","0">>, <<"s","t","1">>, <<"s","t","2">>, <<"s","t","3">>, <<"u","n","r","e","a","s","o","n","a","b","l","e">>, <<"b","a","d"," ","p","v">>,
       <<"o","f","f"," ","n","o","r","m","a","l">>, <<"c","o","m","m","a","n","d"," ","d","i","s","a","g","r","e","e">>, <<"c","o","m","m","a","n","d"," ","f","a","i","l">>, <<"c","n","f","e","r","r">>, <<"c","h","o","f","s","t">>,
       <<"o","f","f","n","r","m">>, <<"b","a","d"," ","c","o","n","t","r","o","l">>, <<"o","v","e","r","r","i","d","e"," ","i","n","t","e","r","l","o","c","k">>, <<"s","a","f","e","t","y"," ","i","n","t","e","r","l","o","c","k">>,
       <<"s","a","f","e","t","y"," ","o","v","e","r","r","i","d","e">>, <<"u","n","c","o","m","m","a","n","d","e","d">>, <<"c","1"," ","-">>, <<"c","2"," ","-">>, <<"c","3"," ","-">>, <<"c","4"," ","-">>,
       <<"c","5"," ","-">>, <<"c","6"," ","-">>, <<"c","7"," ","-">>, <<"c","8"," ","-">>, <<"c","9"," ","-">>, <<"c","1","0"," ","-">>, <<"c","1","1"," ","-">>, <<"c","1","2"," ","-">>,
       <<"f","l","a","g","o","f","f","n","o","r","m">>, <<"d","e","v","b","a","d","p","v">>, <<"d","e","v","c","m","d","d","i","s">>, <<"d","e","v","u","n","c","e","v","t">>, <<"d","e","v","c","m","d","f","a","i","l">>,
       <<"d","a","q","p","v","h","i">>, <<"d","a","q","p","v","h","i","h","i">>, <<"d","a","q","p","v","l","o","w">>, <<"d","a","q","p","v","l","o","l","o">>, <<"d","a","q","r","o","c","n","e","g">>,
       <<"d","a","q","r","o","c","p","o","s">>, <<"r","e","g","b","a","d","c","t","l">> >>

\* AlarmTransformer.is_discrete
is_discrete(alarm_type) ==
    LET at_lower == lower(alarm_type)
    IN  \E i \in 1..Len(DISCRETE_ALARM_TYPES) : contains(DISCRETE_ALARM_TYPES[i], at_lower)

\* result.replace(bad, good): non-overlapping occurrences, left to right
RECURSIVE replace(_, _, _)
replace(s, bad, good) ==
    IF Len(s) < Len(bad) \/ bad = <<>> THEN s
    ELSE IF SubSeq(s, 1, Len(bad)) = bad
         THEN good \o replace(SubSeq(s, Len(bad) + 1, Len(s)), bad, good)
         ELSE <<Head(s)>> \o replace(Tail(s), bad, good)

\* The replacements table of _fix_encoding, in dict order.  A character outside
\* ASCII is written as its code point, "U+00C3".  The source lists the key of the
\* fifth entry twice (en dash, em dash): the dict keeps the second value.
fix_encoding_replacements ==
    << << <<"U+00C3","U+0083","U+00E2","U+0080","U+009A","U+00C2","U+00B0">>,
          <<"U+00C2","U+00B0">> >>,
       << <<"U+00C3","U+0083","U+00E2","U+0080","U+009A","U+00A0">>, <<"U+00A0">> >>,
       << <<"U+00C3","U+0083","U+00E2","U+0080","U+009A"," ">>, <<" ">> >>,
       << <<"U+00C3","U+0083","U+00C2","U+00A2","U+00C3","U+00A2","U+00E2","U+0080",
            "U+009A","U+00C2","U+00AC","U+00C3","U+00A2","U+00E2","U+0080","U+009E",
            "U+00C2","U+00A2">>, <<"'">> >>,
       << <<"U+00C3","U+0083","U+00C2","U+00A2","U+00C3","U+00A2","U+00E2","U+0080",
            "U+009A","U+00C2","U+00AC","\"">>, <<"U+00E2","U+0080","U+0093">> >>,
       << <<"U+00C3","U+0083","U+00C6","U+0092","U+00C3","U+0082","U+00C2","U+00A9">>,
          <<"U+00C3","U+0083","U+00C2","U+00A9">> >>,
       << <<"U+00C3","U+0083","U+00C6","U+0092","U+00C3","U+0082","U+00C2","U+00B1">>,
          <<"U+00C3","U+0083","U+00C2","U+00B1">> >> >>

RECURSIVE fix_encoding_from(_, _)
fix_encoding_from(value, k) ==
    IF k > Len(fix_encoding_replacements) THEN value
    ELSE fix_encoding_from(replace(value, fix_encoding_replacements[k][1],
                                   fix_encoding_replacements[k][2]), k + 1)

\* AlarmTransformer._fix_encoding
fix_encoding(value) == IF value = <<>> THEN value ELSE fix_encoding_from(value, 1)

(***************************************************************************)
(* Class constants and the client profiles                                 *)
(***************************************************************************)
\* AlarmTransformer.PHAPRO_HEADERS
PHAPRO_HEADERS ==
    << <<"U","n","i","t">>, <<"T","a","g"," ","N","a","m","e">>, <<"O","l","d"," ","T","a","g"," ","D","e","s","c","r","i","p","t","i","o","n">>, <<"N","e","w"," ","T","a","g"," ","D","e","s","c","r","i","p","t","i","o","n">>, <<"P","&","I","D">>,
       <<"R","a","n","g","e"," ","M","i","n">>, <<"R","a","n","g","e"," ","M","a","x">>, <<"E","n","g","i","n","e","e","r","i","n","g"," ","U","n","i","t","s">>, <<"T","a","g"," ","S","o","u","r","c","e">>,
       <<"R","a","t","i","o","n","a","l","i","z","a","t","i","o","n"," ","(","T","a","g",")"," ","C","o","m","m","e","n","t">>, <<"O","l","d"," ","T","a","g"," ","E","n","a","b","l","e"," ","S","t","a","t","u","s">>, <<"N","e","w"," ","T","a","g"," ","E","n","a","b","l","e"," ","S","t","a","t","u","s">>,
       <<"A","l","a","r","m"," ","T","y","p","e">>, <<"O","l","d"," ","I","n","d","i","v","i","d","u","a","l"," ","A","l","a","r","m"," ","E","n","a","b","l","e"," ","S","t","a","t","u","s">>, <<"N","e","w"," ","I","n","d","i","v","i","d","u","a","l"," ","A","l","a","r","m"," ","E","n","a","b","l","e"," ","S","t","a","t","u","s">>,
       <<"O","l","d"," ","(","B","P","C","S",")"," ","P","r","i","o","r","i","t","y">>, <<"N","e","w"," ","(","B","P","C","S",")"," ","P","r","i","o","r","i","t","y">>, <<"O","l","d"," ","L","i","m","i","t">>, <<"N","e","w"," ","L","i","m","i","t">>,
       <<"O","l","d"," ","D","e","a","d","b","a","n","d">>, <<"N","e","w"," ","D","e","a","d","b","a","n","d">>, <<"O","l","d"," ","D","e","a","d","b","a","n","d"," ","U","n","i","t","s">>, <<"N","e","w"," ","D","e","a","d","b","a","n","d"," ","U","n","i","t","s">>,
       <<"O","l","d"," ","O","n","-","D","e","l","a","y"," ","T","i","m","e">>, <<"N","e","w"," ","O","n","-","D","e","l","a","y"," ","T","i","m","e">>, <<"O","l","d"," ","O","f","f","-","D","e","l","a","y"," ","T","i","m","e">>, <<"N","e","w"," ","O","f","f","-","D","e","l","a","y"," ","T","i","m","e">>,
       <<"R","a","t","i","o","n","a","l","i","z","a","t","i","o","n"," ","S","t","a","t","u","s">>, <<"A","l","a","r","m"," ","S","t","a","t","u","s">>, <<"R","a","t","i","o","n","a","l","i","z","a","t","i","o","n"," ","(","A","l","a","r","m",")"," ","C","o","m","m","e","n","t">>,
       <<"L","i","m","i","t"," ","O","w","n","e","r">>, <<"A","l","a","r","m"," ","H","A","Z","O","P"," ","C","o","m","m","e","n","t">>, <<"A","l","a","r","m"," ","S","u","p","p","r","e","s","s","i","o","n"," ","N","o","t","e","s">>, <<"A","l","a","r","m"," ","C","l","a","s","s">>,
       <<"C","a","u","s","e","(","s",")">>, <<"C","o","n","s","e","q","u","e","n","c","e","(","s",")">>, <<"I","n","s","i","d","e"," ","A","c","t","i","o","n","(","s",")">>, <<"O","u","t","s","i","d","e"," ","A","c","t","i","o","n","(","s",")">>,
       <<"H","e","a","l","t","h"," ","a","n","d"," ","S","a","f","e","t","y">>, <<"E","n","v","i","r","o","n","m","e","n","t">>, <<"F","i","n","a","n","c","i","a","l">>, <<"R","e","p","u","t","a","t","i","o","n">>,
       <<"P","r","i","v","i","l","e","g","e"," ","t","o"," ","O","p","e","r","a","t","e">>, <<"M","a","x"," ","S","e","v","e","r","i","t","y">>, <<"A","l","l","o","w","a","b","l","e"," ","T","i","m","e"," ","t","o"," ","R","e","s","p","o","n","d">> >>

\* AlarmTransformer.ABB_PHAPRO_HEADERS
ABB_PHAPRO_HEADERS ==
    << <<"U","n","i","t">>, <<"S","t","a","r","t","i","n","g"," ","T","a","g"," ","N","a","m","e">>, <<"N","e","w"," ","T","a","g"," ","N","a","m","e">>, <<"O","l","d"," ","T","a","g"," ","D","e","s","c","r","i","p","t","i","o","n">>, <<"N","e","w"," ","T","a","g"," ","D","e","s","c","r","i","p","t","i","o","n">>,
       <<"T","a","g"," ","S","o","u","r","c","e">>, <<"R","a","t","i","o","n","a","l","i","z","a","t","i","o","n"," ","(","T","a","g",")"," ","C","o","m","m","e","n","t">>, <<"R","a","n","g","e"," ","M","i","n">>, <<"R","a","n","g","e"," ","M","a","x">>, <<"E","n","g","i","n","e","e","r","i","n","g"," ","U","n","i","t","s">>,
       <<"S","t","a","r","t","i","n","g"," ","A","l","a","r","m"," ","T","y","p","e">>, <<"N","e","w"," ","A","l","a","r","m"," ","T","y","p","e">>, <<"O","l","d"," ","A","l","a","r","m"," ","E","n","a","b","l","e"," ","S","t","a","t","u","s">>, <<"N","e","w"," ","A","l","a","r","m"," ","E","n","a","b","l","e"," ","S","t","a","t","u","s">>,
       <<"O","l","d"," ","A","l","a","r","m"," ","S","e","v","e","r","i","t","y">>, <<"N","e","w"," ","A","l","a","r","m"," ","S","e","v","e","r","i","t","y">>, <<"O","l","d"," ","L","i","m","i","t">>, <<"N","e","w"," ","L","i","m","i","t">>,
       <<"O","l","d"," ","(","B","P","C","S",")"," ","P","r","i","o","r","i","t","y">>, <<"N","e","w"," ","(","B","P","C","S",")"," ","P","r","i","o","r","i","t","y">>, <<"R","a","t","i","o","n","a","l","i","z","a","t","i","o","n"," ","S","t","a","t","u","s">>, <<"A","l","a","r","m"," ","S","t","a","t","u","s">>,
       <<"R","a","t","i","o","n","a","l","i","z","a","t","i","o","n"," ","(","A","l","a","r","m",")"," ","C","o","m","m","e","n","t">> >>

\* AlarmTransformer.HFS_PHAPRO_HEADERS
HFS_PHAPRO_HEADERS ==
    << <<"U","n","i","t">>, <<"S","t","a","r","t","i","n","g"," ","T","a","g"," ","N","a","m","e">>, <<"N","e","w"," ","T","a","g"," ","N","a","m","e">>, <<"O","l","d"," ","T","a","g"," ","D","e","s","c","r","i","p","t","i","o","n">>, <<"N","e","w"," ","T","a","g"," ","D","e","s","c","r","i","p","t","i","o","n">>,
       <<"P","&","I","D">>, <<"R","a","n","g","e"," ","M","i","n">>, <<"R","a","n","g","e"," ","M","a","x">>, <<"E","n","g","i","n","e","e","r","i","n","g"," ","U","n","i","t","s">>, <<"T","a","g"," ","S","o","u","r","c","e">>, <<"R","a","t","i","o","n","a","l","i","z","a","t","i","o","n"," ","(","T","a","g",")"," ","C","o","m","m","e","n","t">>,
       <<"O","l","d"," ","T","a","g"," ","E","n","a","b","l","e"," ","S","t","a","t","u","s">>, <<"N","e","w"," ","T","a","g"," ","E","n","a","b","l","e"," ","S","t","a","t","u","s">>,
       <<"S","t","a","r","t","i","n","g"," ","A","l","a","r","m"," ","T","y","p","e">>, <<"N","e","w"," ","A","l","a","r","m"," ","T","y","p","e">>, <<"O","l","d"," ","A","l","a","r","m"," ","E","n","a","b","l","e"," ","S","t","a","t","u","s">>, <<"N","e","w"," ","A","l","a","r","m"," ","E","n","a","b","l","e"," ","S","t","a","t","u","s">>,
       <<"O","l","d"," ","(","B","P","C","S",")"," ","P","r","i","o","r","i","t","y">>, <<"N","e","w"," ","(","B","P","C","S",")"," ","P","r","i","o","r","i","t","y">>,
       <<"O","l","d"," ","L","i","m","i","t">>, <<"N","e","w"," ","L","i","m","i","t">>, <<"O","l","d"," ","D","e","a","d","b","a","n","d">>, <<"N","e","w"," ","D","e","a","d","b","a","n","d">>, <<"O","l","d"," ","D","e","a","d","b","a","n","d"," ","U","n","i","t","s">>, <<"N","e","w"," ","D","e","a","d","b","a","n","d"," ","U","n","i","t","s">>,
       <<"O","l","d"," ","O","n","-","D","e","l","a","y"," ","T","i","m","e">>, <<"N","e","w"," ","O","n","-","D","e","l","a","y"," ","T","i","m","e">>, <<"O","l","d"," ","O","f","f","-","D","e","l","a","y"," ","T","i","m","e">>, <<"N","e","w"," ","O","f","f","-","D","e","l","a","y"," ","T","i","m","e">>,
       <<"R","a","t","i","o","n","a","l","i","z","a","t","i","o","n"," ","S","t","a","t","u","s">>, <<"A","l","a","r","m"," ","S","t","a","t","u","s">>, <<"R","a","t","i","o","n","a","l","i","z","a","t","i","o","n"," ","(","A","l","a","r","m",")"," ","C","o","m","m","e","n","t">>, <<"A","l","a","r","m"," ","C","l","a","s","s">>,
       <<"C","a","u","s","e","(","s",")">>, <<"C","o","n","s","e","q","u","e","n","c","e","(","s",")">>, <<"I","n","s","i","d","e"," ","A","c","t","i","o","n","(","s",")">>, <<"O","u","t","s","i","d","e"," ","A","c","t","i","o","n","(","s",")">>,
       <<"E","s","c","a","l","a","t","i","o","n">>, <<"L","i","m","i","t"," ","O","w","n","e","r">>, <<"P","e","r","s","o","n","n","e","l">>, <<"P","u","b","l","i","c"," ","o","r"," ","E","n","v","i","r","o","n","m","e","n","t">>, <<"C","o","s","t","s"," ","/"," ","P","r","o","d","u","c","t","i","o","n">>,
       <<"M","a","x","i","m","u","m"," ","T","i","m","e"," ","t","o"," ","R","e","s","o","l","v","e">> >>

\* AlarmTransformer._HARDCODED_CONFIGS, the keys the transforms read, with the
\* defaults of config.get(...) filled in ("phapro_headers": "FLNG",
\* "empty_mode_is_valid": False).
CLIENT_CONFIGS ==
    [ flng |->
        [client |-> "flng", parser |-> "dynamo", phapro_headers |-> "FLNG",
         empty_mode_is_valid |-> FALSE, unit_method |-> <<"T","A","G","_","P","R","E","F","I","X">>, unit_digits |-> 2,
         default_source |-> <<"H","o","n","e","y","w","e","l","l"," ","T","D","C"," ","(","D","C","S",")">>],
      hfs_artesia |->
        [client |-> "hfs_artesia", parser |-> "dynamo", phapro_headers |-> "HFS",
         empty_mode_is_valid |-> TRUE, unit_method |-> <<"T","A","G","_","P","R","E","F","I","X">>, unit_digits |-> 2,
         default_source |-> <<"H","o","n","e","y","w","e","l","l"," ","T","D","C"," ","(","D","C","S",")">>],
      rt_bessemer |->
        [client |-> "rt_bessemer", parser |-> "abb", phapro_headers |-> "FLNG",
         empty_mode_is_valid |-> FALSE, unit_method |-> <<"F","I","X","E","D">>,
         unit_value |-> <<"L","i","n","e"," ","1">>,
         default_source |-> <<"A","B","B"," ","8","0","0","x","A"," ","(","D","C","S",")">>] ]

\* A profile as config/clients.yaml can declare it: get_client_configs
\* answers the profiles of that file when it loads, and derive_tag_source
\* reads whatever rules they hold. Three rules: an exact rule on the tag
\* name, a contains rule on the point type (the default field) and a
\* set-membership rule on the point type.
EXTERNAL_CONFIG ==
    [client |-> "external", parser |-> "dynamo", phapro_headers |-> "FLNG",
     empty_mode_is_valid |-> FALSE, unit_method |-> <<"T","A","G","_","P","R","E","F","I","X">>, unit_digits |-> 2,
     default_source |-> <<"P","l","a","n","t"," ","D","C","S">>]

\* AlarmTransformer.get_phapro_headers
get_phapro_headers ==
    IF config.phapro_headers = "HFS" THEN HFS_PHAPRO_HEADERS ELSE PHAPRO_HEADERS

\* AlarmTransformer.__init__: self.stats
InitialStats == [tags |-> 0, alarms |-> 0, units |-> {}]

new_dict_SameObject(obj) == obj

\* `self.stats = {...}`: the dict display creates a new object, which
\* self.stats refers to from then on
new_dict(obj) == obj + 1

\* Python row[k] (0-based); every read in the code is guarded by len(row) > k
Cell(row, k) == row[k + 1]

(***************************************************************************)
(* Units, tag sources, severities and cleaned values                       *)
(***************************************************************************)
\* The printable ASCII characters in code-point order (without the backslash
\* and the backquote, which no input of the model holds): the order of
\* Python's comparison of two texts
CodePoints ==
    << " ", "!", "\"", "#", "$", "%", "&", "'", "(", ")", "*", "+", ",", "-", ".", "/",
       "0", "1", "2", "3", "4", "5", "6", "7", "8", "9", ":", ";", "<", "=", ">", "?", "@",
       "A", "B", "C", "D", "E", "F", "G", "H", "I", "J", "K", "L", "M", "N", "O", "P", "Q",
       "R", "S", "T", "U", "V", "W", "X", "Y", "Z", "[", "]", "^", "_",
       "a", "b", "c", "d", "e", "f", "g", "h", "i", "j", "k", "l", "m", "n", "o", "p", "q",
       "r", "s", "t", "u", "v", "w", "x", "y", "z", "{", "|", "}", "~" >>

\* a < b for two texts
RECURSIVE TextLess(_, _)
TextLess(a, b) ==
    IF b = <<>> THEN FALSE
    ELSE IF a = <<>> THEN TRUE
    ELSE IF Head(a) = Head(b) THEN TextLess(Tail(a), Tail(b))
    ELSE IndexIn(Head(a), CodePoints) < IndexIn(Head(b), CodePoints)

\* [p for p in s.split('/') if p]
RECURSIVE SplitParts(_, _)
SplitParts(s, current) ==
    IF s = <<>> THEN (IF current = <<>> THEN <<>> ELSE <<current>>)
    ELSE IF Head(s) = "/"
         THEN (IF current = <<>> THEN <<>> ELSE <<current>>) \o SplitParts(Tail(s), <<>>)
         ELSE SplitParts(Tail(s), Append(current, Head(s)))

\* Every digit of the tag name, wherever it stands and however many.
PrefixDigits_AllDigits(tag_name, taken, unit_digits) ==
    taken \o SelectSeq(tag_name, IsDigit)

\* The first run of digits of the tag name, cut at unit_digits characters
RECURSIVE PrefixDigits(_, _, _)
PrefixDigits(tag_name, taken, unit_digits) ==
    IF tag_name = <<>> THEN taken
    ELSE IF IsDigit(Head(tag_name))
         THEN IF Len(taken) + 1 >= unit_digits THEN Append(taken, Head(tag_name))
              ELSE PrefixDigits(Tail(tag_name), Append(taken, Head(tag_name)), unit_digits)
         ELSE IF taken # <<>> THEN taken
              ELSE PrefixDigits(Tail(tag_name), taken, unit_digits)

\* match.end() of re.search(r'/U(\d+)/', asset_path, re.IGNORECASE); 0: no match
UnitMatchEnd(asset_path) ==
    LET ends(i) == {j \in (i + 3)..Len(asset_path) :
                       /\ asset_path[j] = "/"
                       /\ \A k \in (i + 2)..(j - 1) : IsDigit(asset_path[k])}
        starts == {i \in 1..Len(asset_path) :
                       /\ asset_path[i] = "/"
                       /\ i + 1 <= Len(asset_path)
                       /\ asset_path[i + 1] \in {"U", "u"}
                       /\ ends(i) # {}}
    IN  IF starts = {} THEN 0 ELSE SetMin(ends(SetMin(starts)))

\* extract_unit with every method answering the tag prefix.
extract_unit_PrefixOnly(tag_name, asset_path, method) ==
    LET unit_from_prefix == PrefixDigits(tag_name, <<>>, config.unit_digits)
    IN  IF unit_from_prefix = <<>> THEN <<"0","0">> ELSE unit_from_prefix

\* AlarmTransformer.extract_unit; method <<>> stands for None
extract_unit(tag_name, asset_path, method) ==
    LET use_method == upper(IF method # <<>> THEN method ELSE config.unit_method)
        digits == PrefixDigits(tag_name, <<>>, config.unit_digits)
        unit_from_prefix == IF digits = <<>> THEN <<"0","0">> ELSE digits
        u_pos == UnitMatchEnd(asset_path)
        parts == IF u_pos = 0 THEN <<>>
                 ELSE SplitParts(SubSeq(asset_path, u_pos + 1, Len(asset_path)), <<>>)
        unit_parent == IF Len(parts) >= 1 THEN parts[1] ELSE <<>>
        unit_child == IF Len(parts) >= 1 THEN parts[Len(parts)] ELSE <<>>
    IN  IF use_method = <<"T","A","G","_","P","R","E","F","I","X">> THEN unit_from_prefix
        ELSE IF use_method = <<"A","S","S","E","T","_","P","A","R","E","N","T">>
             THEN (IF unit_parent # <<>> THEN unit_parent ELSE <<"0","0">>)
        ELSE IF use_method = <<"A","S","S","E","T","_","C","H","I","L","D">>
             THEN (IF unit_child # <<>> THEN unit_child
                   ELSE IF unit_parent # <<>> THEN unit_parent ELSE <<"0","0">>)
        ELSE IF use_method = <<"A","S","S","E","T","_","P","A","T","H">>
             THEN (IF unit_parent # <<>> THEN unit_parent ELSE <<"0","0">>)
        ELSE IF use_method = <<"B","O","T","H">>
             THEN (IF unit_parent # <<>> /\ contains(unit_from_prefix, unit_parent)
                   THEN unit_parent ELSE <<"0","0">>)
        ELSE unit_from_prefix

Rule(kind, field, values, source, enforcement) ==
    [kind |-> kind, field |-> field, values |-> values, source |-> source,
     enforcement |-> enforcement]

\* self.config["tag_source_rules"]
tag_source_rules ==
    IF config.client = "flng"
    THEN << Rule("prefix", "point_type", << <<"S","M">> >>, <<"H","o","n","e","y","w","e","l","l"," ","S","a","f","e","t","y"," ","M","a","n","a","g","e","r"," ","(","S","I","S",")">>, <<"R">>),
            Rule("contains", "tag_name", << <<".">> >>, <<"H","o","n","e","y","w","e","l","l"," ","E","x","p","e","r","i","o","n"," ","(","D","C","S",")">>, <<"M">>),
            Rule("in", "point_type", << <<"A","N","A">>, <<"S","T","A">> >>, <<"H","o","n","e","y","w","e","l","l"," ","E","x","p","e","r","i","o","n"," ","(","S","C","A","D","A",")">>, <<"M">>) >>
    ELSE IF config.client = "hfs_artesia"
    THEN << Rule("prefix", "point_type", << <<"S","M","_">> >>, <<"H","o","n","e","y","w","e","l","l"," ","S","a","f","e","t","y"," ","M","a","n","a","g","e","r">>, <<"R">>),
            Rule("exact", "point_type", << <<"S","M">> >>, <<"H","o","n","e","y","w","e","l","l"," ","S","a","f","e","t","y"," ","M","a","n","a","g","e","r">>, <<"R">>),
            Rule("exact", "point_type", << <<"A","N","A">> >>, <<"H","o","n","e","y","w","e","l","l"," ","E","x","p","e","r","i","o","n"," ","(","S","C","A","D","A",")">>, <<"M">>),
            Rule("exact", "point_type", << <<"S","T","A">> >>, <<"H","o","n","e","y","w","e","l","l"," ","E","x","p","e","r","i","o","n"," ","(","S","C","A","D","A",")">>, <<"M">>),
            Rule("exact", "point_type", << <<"A","U","T","O","M","A","N">> >>, <<"H","o","n","e","y","w","e","l","l"," ","E","x","p","e","r","i","o","n"," ","(","D","C","S",")">>, <<"M">>),
            Rule("exact", "point_type", << <<"C","A","B">> >>, <<"H","o","n","e","y","w","e","l","l"," ","E","x","p","e","r","i","o","n"," ","(","D","C","S",")">>, <<"M">>),
            Rule("exact", "point_type", << <<"D","A","T","A","A","C","Q">> >>, <<"H","o","n","e","y","w","e","l","l"," ","E","x","p","e","r","i","o","n"," ","(","D","C","S",")">>, <<"M">>),
            Rule("exact", "point_type", << <<"D","E","V","C","T","L">> >>, <<"H","o","n","e","y","w","e","l","l"," ","E","x","p","e","r","i","o","n"," ","(","D","C","S",")">>, <<"M">>),
            Rule("exact", "point_type", << <<"D","I","G","A","C","Q">> >>, <<"H","o","n","e","y","w","e","l","l"," ","E","x","p","e","r","i","o","n"," ","(","D","C","S",")">>, <<"M">>),
            Rule("exact", "point_type", << <<"F","A","N","O","U","T">> >>, <<"H","o","n","e","y","w","e","l","l"," ","E","x","p","e","r","i","o","n"," ","(","D","C","S",")">>, <<"M">>),
            Rule("exact", "point_type", << <<"F","L","A","G","/","C","O","N","T","A","C","T","M","O","N">> >>, <<"H","o","n","e","y","w","e","l","l"," ","E","x","p","e","r","i","o","n"," ","(","D","C","S",")">>, <<"M">>),
            Rule("exact", "point_type", << <<"F","L","O","W","C","O","M","P">> >>, <<"H","o","n","e","y","w","e","l","l"," ","E","x","p","e","r","i","o","n"," ","(","D","C","S",")">>, <<"M">>),
            Rule("exact", "point_type", << <<"O","V","R","D","S","E","L">> >>, <<"H","o","n","e","y","w","e","l","l"," ","E","x","p","e","r","i","o","n"," ","(","D","C","S",")">>, <<"M">>),
            Rule("exact", "point_type", << <<"P","I","D">> >>, <<"H","o","n","e","y","w","e","l","l"," ","E","x","p","e","r","i","o","n"," ","(","D","C","S",")">>, <<"M">>),
            Rule("exact", "point_type", << <<"P","I","D","-","P","L">> >>, <<"H","o","n","e","y","w","e","l","l"," ","E","x","p","e","r","i","o","n"," ","(","D","C","S",")">>, <<"M">>),
            Rule("exact", "point_type", << <<"P","I","D","F","F">> >>, <<"H","o","n","e","y","w","e","l","l"," ","E","x","p","e","r","i","o","n"," ","(","D","C","S",")">>, <<"M">>),
            Rule("exact", "point_type", << <<"R","A","T","I","O","C","T","L">> >>, <<"H","o","n","e","y","w","e","l","l"," ","E","x","p","e","r","i","o","n"," ","(","D","C","S",")">>, <<"M">>),
            Rule("exact", "point_type", << <<"R","E","G","C","A","L","C">> >>, <<"H","o","n","e","y","w","e","l","l"," ","E","x","p","e","r","i","o","n"," ","(","D","C","S",")">>, <<"M">>),
            Rule("exact", "point_type", << <<"R","E","M","C","A","S">> >>, <<"H","o","n","e","y","w","e","l","l"," ","E","x","p","e","r","i","o","n"," ","(","D","C","S",")">>, <<"M">>),
            Rule("exact", "point_type", << <<"S","I","G","N","A","L","S","E","L">> >>, <<"H","o","n","e","y","w","e","l","l"," ","E","x","p","e","r","i","o","n"," ","(","D","C","S",")">>, <<"M">>),
            Rule("exact", "point_type", << <<"S","W","I","T","C","H">> >>, <<"H","o","n","e","y","w","e","l","l"," ","E","x","p","e","r","i","o","n"," ","(","D","C","S",")">>, <<"M">>),
            Rule("exact", "point_type", << <<"T","O","T","A","L","I","Z","E","R">> >>, <<"H","o","n","e","y","w","e","l","l"," ","E","x","p","e","r","i","o","n"," ","(","D","C","S",")">>, <<"M">>),
            Rule("exact", "point_type", << <<"A","N","A","L","G","I","N">> >>, <<"H","o","n","e","y","w","e","l","l"," ","T","D","C"," ","(","D","C","S",")">>, <<"M">>),
            Rule("exact", "point_type", << <<"C","U","S","T","O","M","A","M">> >>, <<"H","o","n","e","y","w","e","l","l"," ","T","D","C"," ","(","D","C","S",")">>, <<"M">>),
            Rule("exact", "point_type", << <<"D","I","G","C","O","M">> >>, <<"H","o","n","e","y","w","e","l","l"," ","T","D","C"," ","(","D","C","S",")">>, <<"M">>),
            Rule("exact", "point_type", << <<"D","I","G","I","N">> >>, <<"H","o","n","e","y","w","e","l","l"," ","T","D","C"," ","(","D","C","S",")">>, <<"M">>),
            Rule("exact", "point_type", << <<"F","L","A","G","A","M">> >>, <<"H","o","n","e","y","w","e","l","l"," ","T","D","C"," ","(","D","C","S",")">>, <<"M">>),
            Rule("exact", "point_type", << <<"L","O","G","I","C">> >>, <<"H","o","n","e","y","w","e","l","l"," ","T","D","C"," ","(","D","C","S",")">>, <<"M">>),
            Rule("exact", "point_type", << <<"R","E","G","A","M">> >>, <<"H","o","n","e","y","w","e","l","l"," ","T","D","C"," ","(","D","C","S",")">>, <<"M">>),
            Rule("exact", "point_type", << <<"R","E","G","C","T","L">> >>, <<"H","o","n","e","y","w","e","l","l"," ","T","D","C"," ","(","D","C","S",")">>, <<"M">>),
            Rule("exact", "point_type", << <<"R","E","G","L","A","T","R","Y">> >>, <<"H","o","n","e","y","w","e","l","l"," ","T","D","C"," ","(","D","C","S",")">>, <<"M">>),
            Rule("exact", "point_type", << <<"R","E","G","P","V">> >>, <<"H","o","n","e","y","w","e","l","l"," ","T","D","C"," ","(","D","C","S",")">>, <<"M">>),
            Rule("exact", "point_type", << <<"S","W","I","T","C","H","A","M">> >>, <<"H","o","n","e","y","w","e","l","l"," ","T","D","C"," ","(","D","C","S",")">>, <<"M">>) >>
    ELSE IF config.client = "external"
    THEN << Rule("exact", "tag_name", << <<"P","-","1","0","1","a">> >>, <<"P","a","c","k","a","g","e"," ","P","L","C">>, <<"M">>),
            Rule("contains", "point_type", << <<"a","i">> >>, <<"R","e","m","o","t","e"," ","I","O">>, <<"R">>),
            Rule("in", "point_type", << <<"A","N","A">>, <<"s","t","a">> >>, <<"S","C","A","D","A">>, <<"M">>) >>
    ELSE <<>>

\* Whether a rule of tag_source_rules matches
rule_matches(rule, tag_name, pt_upper) ==
    LET check_value == IF rule.field = "point_type" THEN pt_upper ELSE tag_name
    IN  IF rule.kind = "exact" THEN check_value = upper(rule.values[1])
        ELSE IF rule.kind = "prefix" THEN startswith(check_value, upper(rule.values[1]))
        ELSE IF rule.kind = "contains" THEN contains(rule.values[1], check_value)
        ELSE InList(check_value, [i \in 1..Len(rule.values) |-> upper(rule.values[i])])

\* AlarmTransformer.derive_tag_source: <<source, enforcement>>
derive_tag_source(tag_name, point_type) ==
    LET pt_upper == upper(point_type)
        hits == {i \in 1..Len(tag_source_rules) :
                    rule_matches(tag_source_rules[i], tag_name, pt_upper)}
    IN  IF hits = {} THEN <<config.default_source, <<"M">>>>
        ELSE <<tag_source_rules[SetMin(hits)].source,
               tag_source_rules[SetMin(hits)].enforcement>>

\* text_mapping of map_severity, in dict order
severity_text_mapping ==
    << << <<"C","A","T","A","S","T","R","O","P","H","I","C">>, <<"A">> >>, << <<"M","A","J","O","R">>, <<"B">> >>, << <<"M","O","D","E","R","A","T","E">>, <<"C">> >>,
       << <<"M","I","N","O","R">>, <<"D">> >>, << <<"I","N","S","I","G","N","I","F","I","C","A","N","T">>, <<"E">> >> >>

\* map_severity without the test for a letter code.
map_severity_NoLetters(consequence) ==
    IF consequence = <<>> \/ InList(strip(consequence), << <<"~">>, <<>>, <<"-">> >>) THEN <<"(","N",")">>
    ELSE LET c == upper(strip(consequence))
             hits == {i \in 1..Len(severity_text_mapping) :
                         \/ contains(severity_text_mapping[i][1], c)
                         \/ contains(c, severity_text_mapping[i][1])}
         IN  IF hits = {} THEN <<"(","N",")">>
             ELSE severity_text_mapping[SetMin(hits)][2]

\* AlarmTransformer.map_severity
map_severity(consequence) ==
    IF consequence = <<>> \/ InList(strip(consequence), << <<"~">>, <<>>, <<"-">> >>) THEN <<"(","N",")">>
    ELSE LET c == upper(strip(consequence))
             hits == {i \in 1..Len(severity_text_mapping) :
                         \/ contains(severity_text_mapping[i][1], c)
                         \/ contains(c, severity_text_mapping[i][1])}
         IN  IF InList(c, << <<"A">>, <<"B">>, <<"C">>, <<"D">>, <<"E">> >>) THEN c
             ELSE IF hits = {} THEN <<"(","N",")">>
             ELSE severity_text_mapping[SetMin(hits)][2]

\* AlarmTransformer._clean_value
clean_value(value) ==
    IF value = <<>> \/ InList(strip(value), << <<"~">>, <<"-">>, <<>> >>) THEN <<>>
    ELSE fix_encoding(remove(strip(value), ","))

\* d[key] = value that keeps the value of a key the dict already holds.
DictPut_KeepFirst(d, key, value) ==
    [k \in (DOMAIN d) \cup {key} |-> IF k \in DOMAIN d THEN d[k] ELSE value]

\* d[key] = value for a dict held as a function
DictPut(d, key, value) ==
    [k \in (DOMAIN d) \cup {key} |-> IF k = key THEN value ELSE d[k]]

(***************************************************************************)
(* parse_dynamo_csv                                                        *)
(***************************************************************************)
\* row[k] if len(row) > k else default
CellOr(row, k, default) == IF Len(row) > k THEN Cell(row, k) ELSE default

\* d.get(key, default) for a dict held as a function
DictGet(d, key, default) == IF key \in DOMAIN d THEN d[key] ELSE default

\* The four sub-tables before the first row
EmptySchemas == [DCSVariable |-> <<>>, DCS |-> <<>>, Parameter |-> <<>>, Notes |-> <<>>]

\* The entry parse_dynamo_csv appends for a _Parameter row
parameter_entry(row) ==
    [mode |-> CellOr(row, 3, <<"B","a","s","e">>),
     alarmType |-> CellOr(row, 5, <<>>),
     value |-> CellOr(row, 7, <<>>),
     priorityValue |-> CellOr(row, 10, <<>>),
     consequence |-> CellOr(row, 12, <<>>),
     TimeToRespond |-> CellOr(row, 13, <<>>),
     PurposeOfAlarm |-> CellOr(row, 16, <<>>),
     ConsequenceOfNoAction |-> CellOr(row, 17, <<>>),
     BoardOperator |-> CellOr(row, 18, <<>>),
     FieldOperator |-> CellOr(row, 19, <<>>),
     SupportingNotes |-> CellOr(row, 20, <<>>),
     DisabledValue |-> CellOr(row, 25, <<>>),
     OnDelayValue |-> CellOr(row, 31, <<>>),
     OffDelayValue |-> CellOr(row, 34, <<>>),
     DeadBandValue |-> CellOr(row, 37, <<>>),
     DeadBandUnitValue |-> CellOr(row, 40, <<>>)]

\* One iteration of the loop of parse_dynamo_csv
parse_row(sch, row) ==
    IF Len(row) < 3 \/ strip(Cell(row, 0)) # <<"_","V","a","r","i","a","b","l","e">> THEN sch
    ELSE LET tag_name == strip(Cell(row, 1))
             schema_type == strip(Cell(row, 2))
         IN  IF schema_type = <<"_","D","C","S","V","a","r","i","a","b","l","e">>
             THEN [sch EXCEPT !.DCSVariable =
                      DictPut(@, tag_name, [assetPath |-> CellOr(row, 3, <<>>),
                                            pointType |-> CellOr(row, 8, <<>>)])]
             ELSE IF schema_type = <<"_","D","C","S">>
             THEN [sch EXCEPT !.DCS =
                      DictPut(@, tag_name, [engUnits |-> CellOr(row, 3, <<>>),
                                            pointType |-> CellOr(row, 4, <<>>),
                                            PVEUHI |-> CellOr(row, 5, <<>>),
                                            PVEULO |-> CellOr(row, 6, <<>>),
                                            desc |-> CellOr(row, 7, <<>>),
                                            unit |-> CellOr(row, 10, <<>>)])]
             ELSE IF schema_type = <<"_","P","a","r","a","m","e","t","e","r">>
             THEN [sch EXCEPT !.Parameter =
                      DictPut(@, tag_name,
                              Append(DictGet(@, tag_name, <<>>), parameter_entry(row)))]
             ELSE IF schema_type = <<"_","N","o","t","e","s">>
             THEN [sch EXCEPT !.Notes =
                      DictPut(@, tag_name, [DocRef1 |-> CellOr(row, 11, <<>>)])]
             ELSE sch

(***************************************************************************)
(* transform_forward                                                       *)
(***************************************************************************)
\* The mode filter of transform_forward that keeps every entry.
forward_mode_ok_KeepAll(mode, selected_modes) == TRUE

\* The mode filter of transform_forward: whether an entry of this mode is kept
forward_mode_ok(mode, selected_modes) ==
    IF selected_modes.given
    THEN LET picked == SelectSeq(selected_modes.modes, LAMBDA m : m # <<"(","e","m","p","t","y",")">>)
             selected_upper == [i \in 1..Len(picked) |-> upper(picked[i])]
             allow_empty == InList(<<"(","e","m","p","t","y",")">>, selected_modes.modes)
         IN  InList(upper(mode), selected_upper) \/ (allow_empty /\ strip(mode) = <<>>)
    ELSE IF config.empty_mode_is_valid
         THEN InList(upper(mode), << <<"N","O","R","M","A","L">>, <<>> >>)
         ELSE upper(mode) = <<"N","O","R","M","A","L">>

\* The tags the first loop of transform_forward visits and does not skip for
\* having no parameters: the keys of _DCSVariable with a non-empty list
visited_tags(sch) ==
    {t \in DOMAIN sch.DCSVariable : DictGet(sch.Parameter, t, <<>>) # <<>>}

normal_params(sch, tag_name, selected_modes) ==
    SelectSeq(DictGet(sch.Parameter, tag_name, <<>>),
              LAMBDA p : forward_mode_ok(p.mode, selected_modes))

\* self.stats["skipped_modes"] after the first loop
RECURSIVE skipped_modes_of(_, _, _)
skipped_modes_of(sch, tag_names, selected_modes) ==
    IF tag_names = {} THEN 0
    ELSE LET t == CHOOSE x \in tag_names : TRUE
         IN  Len(DictGet(sch.Parameter, t, <<>>)) - Len(normal_params(sch, t, selected_modes))
             + skipped_modes_of(sch, tag_names \ {t}, selected_modes)

NoRecord == [engUnits |-> <<>>, pointType |-> <<>>, PVEUHI |-> <<>>, PVEULO |-> <<>>,
             desc |-> <<>>, unit |-> <<>>, assetPath |-> <<>>, DocRef1 |-> <<>>]

\* The unit taken from the _DCS row under every method.
final_unit_AnyMethod(sch, tag_name, unit_method) ==
    LET var_data == sch.DCSVariable[tag_name]
        dcs_unit == DictGet(sch.DCS, tag_name, NoRecord).unit
    IN  IF dcs_unit # <<>> THEN dcs_unit
        ELSE extract_unit(tag_name, var_data.assetPath, unit_method)

\* final_unit of a tag
final_unit(sch, tag_name, unit_method) ==
    LET var_data == sch.DCSVariable[tag_name]
        dcs_unit == DictGet(sch.DCS, tag_name, NoRecord).unit
        extracted_unit == extract_unit(tag_name, var_data.assetPath, unit_method)
    IN  IF unit_method # <<>> /\ upper(unit_method) = <<"A","S","S","E","T","_","C","H","I","L","D">> /\ dcs_unit # <<>>
        THEN dcs_unit
        ELSE extracted_unit

\* The unit filter: selected_units empty or None keeps every tag
unit_selected(unit, selected_units) ==
    \/ selected_units = <<>>
    \/ \E i \in 1..Len(selected_units) :
          \/ selected_units[i] = unit
          \/ contains(selected_units[i], unit)
          \/ contains(unit, selected_units[i])

\* The record transform_forward appends to `tags`
tag_record(sch, tag_name, unit_method, selected_modes) ==
    LET var_data == sch.DCSVariable[tag_name]
        dcs_data == DictGet(sch.DCS, tag_name, NoRecord)
        notes == DictGet(sch.Notes, tag_name, NoRecord)
        fixed_units == fix_encoding(dcs_data.engUnits)
        range_min == remove(dcs_data.PVEULO, ",")
        range_max == remove(dcs_data.PVEUHI, ",")
        blank == << <<"~">>, <<"-">>, <<"-","-","-","-","-","-","-","-">>, <<>> >>
    IN  [tag_name |-> tag_name,
         unit |-> final_unit(sch, tag_name, unit_method),
         point_type |-> IF dcs_data.pointType # <<>> THEN dcs_data.pointType
                        ELSE var_data.pointType,
         desc |-> fix_encoding(dcs_data.desc),
         eng_units |-> IF InList(fixed_units, << <<"~">>, <<"-">>, <<>> >>) THEN <<>> ELSE fixed_units,
         range_min |-> IF InList(range_min, blank) THEN <<>> ELSE range_min,
         range_max |-> IF InList(range_max, blank) THEN <<>> ELSE range_max,
         pid |-> IF notes.DocRef1 = <<>> \/ notes.DocRef1 = <<"~">> THEN <<"U","N","K","N","O","W","N">>
                 ELSE notes.DocRef1,
         params |-> normal_params(sch, tag_name, selected_modes)]

\* The tags that reach the list `tags`
kept_tags(sch, selected_units, unit_method, selected_modes) ==
    {t \in visited_tags(sch) :
        /\ normal_params(sch, t, selected_modes) # <<>>
        /\ unit_selected(final_unit(sch, t, unit_method), selected_units)}

TagLess(a, b) ==
    \/ TextLess(a.unit, b.unit)
    \/ a.unit = b.unit /\ TextLess(a.tag_name, b.tag_name)

\* tags.sort(key=lambda t: (t['unit'], t['tag_name'])): the tag names are the
\* keys of a dict, so no two records compare equal
RECURSIVE SortedTags(_)
SortedTags(records) ==
    IF records = {} THEN <<>>
    ELSE LET least == CHOOSE x \in records : \A y \in records \ {x} : TagLess(x, y)
         IN  <<least>> \o SortedTags(records \ {least})

\* `x or "~"`
OrTilde(x) == IF x = <<>> THEN <<"~">> ELSE x

\* indiv_enable: the same three-way rule for discrete and analog alarms
indiv_enable(disabled_value) ==
    IF upper(disabled_value) = <<"T","R","U","E">> THEN <<"E","n","a","b","l","e","d">>
    ELSE IF upper(disabled_value) = <<"F","A","L","S","E">> THEN <<"D","i","s","a","b","l","e","d">>
    ELSE <<"{","n","/","a","}">>

\* limit_value that does not look at the alarm type.
limit_value_AnyType(param) ==
    IF param.value # <<>> /\ ~InList(param.value, << <<"~">>, <<"-","-","-","-","-","-","-","-">> >>)
    THEN remove(param.value, ",")
    ELSE <<>>

\* limit_value: blank for a discrete alarm type or a placeholder value
limit_value(param) ==
    IF is_discrete(param.alarmType) THEN <<>>
    ELSE IF param.value # <<>> /\ ~InList(param.value, << <<"~">>, <<"-","-","-","-","-","-","-","-">> >>)
         THEN remove(param.value, ",")
         ELSE <<>>

\* The HFS data row without its last cell.
hfs_row_ShortByOne(tag, param, tag_source, first_alarm, first_tag_for_unit) ==
    LET once(x) == IF first_alarm THEN x ELSE <<>>
        priority == map_priority(param.priorityValue, param.DisabledValue)
    IN  << IF first_tag_for_unit /\ first_alarm THEN tag.unit ELSE <<>>,
           once(tag.tag_name), once(tag.tag_name), once(tag.desc), once(tag.desc),
           once(tag.pid), once(tag.range_min), once(tag.range_max), once(tag.eng_units),
           once(tag_source),
           IF first_alarm /\ tag.point_type # <<>>
           THEN <<"P","o","i","n","t"," ","T","y","p","e"," ","="," ">> \o tag.point_type ELSE <<>>,
           once(<<"E","n","a","b","l","e","d">>), once(<<"E","n","a","b","l","e","d">>),
           param.alarmType, param.alarmType,
           indiv_enable(param.DisabledValue), indiv_enable(param.DisabledValue),
           priority[1], priority[1],
           limit_value(param), limit_value(param),
           clean_value(param.DeadBandValue), clean_value(param.DeadBandValue),
           clean_value(param.DeadBandUnitValue), clean_value(param.DeadBandUnitValue),
           clean_value(param.OnDelayValue), clean_value(param.OnDelayValue),
           clean_value(param.OffDelayValue), clean_value(param.OffDelayValue),
           <<"N","o","t"," ","S","t","a","r","t","e","d","_","x">>, priority[2], <<>>, <<>>,
           OrTilde(param.PurposeOfAlarm), OrTilde(param.ConsequenceOfNoAction),
           OrTilde(param.BoardOperator), OrTilde(param.FieldOperator),
           <<>>, <<>>, <<>>, <<>>,
           map_severity(param.consequence) >>

\* The data row of the HFS format (43 cells)
hfs_row(tag, param, tag_source, first_alarm, first_tag_for_unit) ==
    LET once(x) == IF first_alarm THEN x ELSE <<>>
        priority == map_priority(param.priorityValue, param.DisabledValue)
    IN  << IF first_tag_for_unit /\ first_alarm THEN tag.unit ELSE <<>>,
           once(tag.tag_name), once(tag.tag_name), once(tag.desc), once(tag.desc),
           once(tag.pid), once(tag.range_min), once(tag.range_max), once(tag.eng_units),
           once(tag_source),
           IF first_alarm /\ tag.point_type # <<>>
           THEN <<"P","o","i","n","t"," ","T","y","p","e"," ","="," ">> \o tag.point_type ELSE <<>>,
           once(<<"E","n","a","b","l","e","d">>), once(<<"E","n","a","b","l","e","d">>),
           param.alarmType, param.alarmType,
           indiv_enable(param.DisabledValue), indiv_enable(param.DisabledValue),
           priority[1], priority[1],
           limit_value(param), limit_value(param),
           clean_value(param.DeadBandValue), clean_value(param.DeadBandValue),
           clean_value(param.DeadBandUnitValue), clean_value(param.DeadBandUnitValue),
           clean_value(param.OnDelayValue), clean_value(param.OnDelayValue),
           clean_value(param.OffDelayValue), clean_value(param.OffDelayValue),
           <<"N","o","t"," ","S","t","a","r","t","e","d","_","x">>, priority[2], <<>>, <<>>,
           OrTilde(param.PurposeOfAlarm), OrTilde(param.ConsequenceOfNoAction),
           OrTilde(param.BoardOperator), OrTilde(param.FieldOperator),
           <<>>, <<>>, <<>>, <<>>,
           map_severity(param.consequence),
           param.TimeToRespond >>

\* The data row of the FLNG format (45 cells)
flng_row(tag, param, tag_source, first_alarm, first_tag_for_unit) ==
    LET once(x) == IF first_alarm THEN x ELSE <<>>
        priority == map_priority(param.priorityValue, param.DisabledValue)
    IN  << IF first_tag_for_unit /\ first_alarm THEN tag.unit ELSE <<>>,
           once(tag.tag_name), once(OrTilde(tag.desc)), once(OrTilde(tag.desc)),
           once(tag.pid), once(tag.range_min), once(tag.range_max),
           once(OrTilde(tag.eng_units)), once(tag_source),
           IF first_alarm /\ tag.point_type # <<>>
           THEN <<"P","o","i","n","t"," ","T","y","p","e"," ","="," ">> \o tag.point_type ELSE <<>>,
           once(<<"E","n","a","b","l","e","d">>), once(<<"E","n","a","b","l","e","d">>),
           param.alarmType,
           indiv_enable(param.DisabledValue), indiv_enable(param.DisabledValue),
           priority[1], priority[1],
           limit_value(param), limit_value(param),
           clean_value(param.DeadBandValue), clean_value(param.DeadBandValue),
           clean_value(param.DeadBandUnitValue), clean_value(param.DeadBandUnitValue),
           clean_value(param.OnDelayValue), clean_value(param.OnDelayValue),
           clean_value(param.OffDelayValue), clean_value(param.OffDelayValue),
           <<"N","o","t"," ","S","t","a","r","t","e","d","_","x">>, priority[2],
           <<>>, <<>>, <<>>, <<>>, <<>>,
           OrTilde(param.PurposeOfAlarm), OrTilde(param.ConsequenceOfNoAction),
           OrTilde(param.BoardOperator), OrTilde(param.FieldOperator),
           <<>>, <<>>,
           map_severity(param.consequence),
           <<>>, <<>>,
           map_severity(param.consequence),
           param.TimeToRespond >>

\* The parameters of a tag that get a row: alarm type not blank, ~ or -
live_params(tag) ==
    SelectSeq(tag.params,
              LAMBDA p : ~InList(strip(p.alarmType), << <<"~">>, <<"-">>, <<>> >>))

\* last_unit before the first tag: None
NoUnit == << "None" >>

\* The rows of one tag, with the tag-level cells only on the row of the tag's
\* first entry.
tag_rows_FirstEntry(tag, last_unit) ==
    LET tag_source == derive_tag_source(tag.tag_name, tag.point_type)[1]
        live == live_params(tag)
        first(k) == k = 1 /\ live[1] = tag.params[1]
    IN  [k \in 1..Len(live) |->
            IF config.phapro_headers = "HFS"
            THEN hfs_row(tag, live[k], tag_source, first(k), tag.unit # last_unit)
            ELSE flng_row(tag, live[k], tag_source, first(k), tag.unit # last_unit)]

\* The rows of one tag, given last_unit
tag_rows(tag, last_unit) ==
    LET tag_source == derive_tag_source(tag.tag_name, tag.point_type)[1]
        live == live_params(tag)
    IN  [k \in 1..Len(live) |->
            IF config.phapro_headers = "HFS"
            THEN hfs_row(tag, live[k], tag_source, k = 1, tag.unit # last_unit)
            ELSE flng_row(tag, live[k], tag_source, k = 1, tag.unit # last_unit)]

\* The second loop of transform_forward: the rows of the sorted tags from i on
RECURSIVE forward_rows(_, _, _)
forward_rows(tags, i, last_unit) ==
    IF i > Len(tags) THEN <<>>
    ELSE tag_rows(tags[i], last_unit)
         \o forward_rows(tags, i + 1,
                         IF live_params(tags[i]) # <<>> THEN tags[i].unit ELSE last_unit)

(***************************************************************************)
(* parse_abb_excel and transform_forward_abb                               *)
(*                                                                         *)
(* A cell of the data frame is [t |-> "num", v |-> decimal text],          *)
(* [t |-> "str", v |-> text] or [t |-> "nan"] (a blank cell).              *)
(***************************************************************************)
\* self.config['abb_alarm_types'], in dict order: <<suffix, alarm type>>
abb_alarm_types ==
    << << <<"H">>, <<"(","P","V",")"," ","H","i","g","h">> >>, << <<"H","H">>, <<"(","P","V",")"," ","H","i","g","h"," ","H","i","g","h">> >>,
       << <<"H","H","H">>, <<"(","P","V",")"," ","H","i","g","h"," ","H","i","g","h"," ","H","i","g","h">> >>, << <<"L">>, <<"(","P","V",")"," ","L","o","w">> >>,
       << <<"L","L">>, <<"(","P","V",")"," ","L","o","w"," ","L","o","w">> >>, << <<"L","L","L">>, <<"(","P","V",")"," ","L","o","w"," ","L","o","w"," ","L","o","w">> >>,
       << <<"O","E">>, <<"O","b","j","e","c","t"," ","E","r","r","o","r">> >> >>

\* str(cell)
CellText(c) == IF c.t = "nan" THEN <<"n","a","n">> ELSE c.v

\* The integer part of a decimal text, as str(int(x)) prints it
IntText(s) ==
    LET u == FloatBody(s)
        dots == {i \in 1..Len(u) : u[i] = "."}
        dot == IF dots = {} THEN Len(u) + 1 ELSE SetMin(dots)
        whole == StripLeadingZeros(SubSeq(u, 1, dot - 1))
    IN  IF whole = <<>> THEN <<"0">>
        ELSE IF IsNegative(s) THEN <<"-">> \o whole ELSE whole

\* Whether int() reads a text: an optional sign and digits, blanks around
IsIntLiteral(s) ==
    LET u == FloatBody(s)
    IN  u # <<>> /\ \A i \in 1..Len(u) : IsDigit(u[i])

\* int(cell) inside try/except: the default on any exception
to_int(c, default) ==
    IF c.t = "num" THEN IntText(c.v)
    ELSE IF c.t = "str" /\ IsIntLiteral(c.v) THEN IntText(c.v)
    ELSE default

\* float(cell) inside try/except: a decimal text, "nan", "inf", or the default
to_float(c, default) ==
    IF c.t = "nan" THEN <<"n","a","n">>
    ELSE IF FloatKind(c.v) = "finite" THEN c.v
    ELSE IF FloatKind(c.v) = "error" THEN default
    ELSE lower(FloatBody(c.v))

\* The last column whose upper-cased name holds the pattern; 0: none
last_column_with(columns, pattern) ==
    LET hits == {i \in 1..Len(columns) : contains(pattern, upper(columns[i]))}
    IN  IF hits = {} THEN 0 ELSE SetMax(hits)

\* name_col: the last column named NAME or OBJECT NAME, else the fourth
\* column, else the first.  Only called for a frame with a column.
name_col(columns) ==
    LET hits == {i \in 1..Len(columns) :
                    upper(columns[i]) \in { <<"N","A","M","E">>, <<"O","B","J","E","C","T"," ","N","A","M","E">> }}
    IN  IF hits # {} THEN SetMax(hits)
        ELSE IF Len(columns) > 3 THEN 4 ELSE 1

\* desc_col: the last column named DESCRIPTION, else the fifth column; 0: None
desc_col(columns) ==
    LET hits == {i \in 1..Len(columns) : upper(columns[i]) = <<"D","E","S","C","R","I","P","T","I","O","N">>}
    IN  IF hits # {} THEN SetMax(hits)
        ELSE IF Len(columns) > 4 THEN 5 ELSE 0

\* df.columns[0] of a frame without a column raises IndexError
name_col_raises(columns) == columns = <<>>

\* The alarm record of one suffix
abb_alarm(columns, row, k) ==
    LET suffix == abb_alarm_types[k][1]
        conf_col == last_column_with(columns, <<"A","E","C","O","N","F">> \o suffix)
        level_col == last_column_with(columns, <<"A","E","L","E","V","E","L">> \o suffix)
        sev_col == last_column_with(columns, <<"A","E","S","E","V">> \o suffix)
    IN  [type |-> abb_alarm_types[k][2],
         suffix |-> suffix,
         enabled |-> IF conf_col = 0 THEN <<"0">> ELSE to_int(row[conf_col], <<"0">>),
         level |-> IF level_col = 0 THEN <<"-","9","9","9","9","9","9","9">>
                   ELSE to_float(row[level_col], <<"-","9","9","9","9","9","9","9">>),
         severity |-> IF sev_col = 0 THEN <<"1">> ELSE to_int(row[sev_col], <<"1">>),
         priority |-> <<"3">>]

\* tag_data of one row of the frame
abb_tag_data(columns, row) ==
    [tag_name |-> strip(CellText(row[name_col(columns)])),
     description |-> IF desc_col(columns) = 0 THEN <<>>
                     ELSE strip(CellText(row[desc_col(columns)])),
     alarms |-> [k \in 1..Len(abb_alarm_types) |-> abb_alarm(columns, row, k)]]

\* int(level_val) raises for a NaN (ValueError) or an infinite (OverflowError) level
level_raises(level) == level \in { <<"n","a","n">>, <<"i","n","f">>, <<"i","n","f","i","n","i","t","y">> }

\* level_str: "-9999999" for the sentinel, else str(int(x)) of a whole level
\* and str(x) of another
level_str(level) == FormatNumber(level)

\* The data row of the ABB format without the comment cell.
abb_row_NoComment(tag, alarm, unit, first_tag, first_alarm) ==
    LET once(x) == IF first_alarm THEN x ELSE <<>>
    IN  << IF first_tag /\ first_alarm THEN unit ELSE <<>>,
           once(tag.tag_name), once(tag.tag_name),
           once(tag.description), once(tag.description),
           once(config.default_source), once(<<"T","a","g"," ","T","y","p","e"," ","="," ","A","n","a","l","o","g"," ","I","n","p","u","t">>),
           once(<<"-","9","9","9","9","9","9","9">>), once(<<"-","9","9","9","9","9","9","9">>), <<>>,
           alarm.type, alarm.type, alarm.enabled, alarm.enabled,
           alarm.severity, alarm.severity,
           level_str(alarm.level), level_str(alarm.level),
           alarm.priority, alarm.priority,
           <<"N","o","t"," ","S","t","a","r","t","e","d","_","x">>,
           IF alarm.enabled = <<"1">> THEN <<"A","l","a","r","m">> ELSE <<"N","o","n","e">> >>

\* The data row of the ABB format (23 cells)
abb_row(tag, alarm, unit, first_tag, first_alarm) ==
    LET once(x) == IF first_alarm THEN x ELSE <<>>
    IN  << IF first_tag /\ first_alarm THEN unit ELSE <<>>,
           once(tag.tag_name), once(tag.tag_name),
           once(tag.description), once(tag.description),
           once(config.default_source), once(<<"T","a","g"," ","T","y","p","e"," ","="," ","A","n","a","l","o","g"," ","I","n","p","u","t">>),
           once(<<"-","9","9","9","9","9","9","9">>), once(<<"-","9","9","9","9","9","9","9">>), <<>>,
           alarm.type, alarm.type, alarm.enabled, alarm.enabled,
           alarm.severity, alarm.severity,
           level_str(alarm.level), level_str(alarm.level),
           alarm.priority, alarm.priority,
           <<"N","o","t"," ","S","t","a","r","t","e","d","_","x">>,
           IF alarm.enabled = <<"1">> THEN <<"A","l","a","r","m">> ELSE <<"N","o","n","e">>,
           <<>> >>

\* The rows of the tags from i on; the unit is written on the first row only
RECURSIVE abb_rows(_, _)
abb_rows(tags, i) ==
    IF i > Len(tags) THEN <<>>
    ELSE [k \in 1..Len(tags[i].alarms) |->
             abb_row(tags[i], tags[i].alarms[k], config.unit_value, i = 1, k = 1)]
         \o abb_rows(tags, i + 1)

\* Whether some alarm of some tag makes the second loop raise
abb_raises(tags) ==
    \E i \in 1..Len(tags) : \E k \in 1..Len(tags[i].alarms) :
        level_raises(tags[i].alarms[k].level)

(***************************************************************************)
(* PHA-Pro export: header map, required columns, flexible lookups          *)
(***************************************************************************)
\* col_map.get(name) for col_map = {h.strip(): i for i, h in enumerate(headers)}:
\* the 0-based index of the last header cell that strips to name; -1 for None
col_map_get(hdrs, name) ==
    LET hits == {i \in 1..Len(hdrs) :
                    \/ hdrs[i] = name
                    \/ Len(hdrs[i]) > Len(name) /\ strip(hdrs[i]) = name}
    IN  IF hits = {} THEN -1 ELSE SetMax(hits) - 1

\* required_columns of validate_phapro_columns: <<logical name, accepted names>>
required_columns ==
    IF config.phapro_headers = "HFS"
    THEN << << <<"T","a","g"," ","N","a","m","e">>, << <<"T","a","g"," ","N","a","m","e">>, <<"N","e","w"," ","T","a","g"," ","N","a","m","e">>, <<"S","t","a","r","t","i","n","g"," ","T","a","g"," ","N","a","m","e">> >> >>,
            << <<"A","l","a","r","m"," ","T","y","p","e">>, << <<"A","l","a","r","m"," ","T","y","p","e">>, <<"N","e","w"," ","A","l","a","r","m"," ","T","y","p","e">>, <<"S","t","a","r","t","i","n","g"," ","A","l","a","r","m"," ","T","y","p","e">> >> >>,
            << <<"N","e","w"," ","L","i","m","i","t">>, << <<"N","e","w"," ","L","i","m","i","t">> >> >>,
            << <<"N","e","w"," ","P","r","i","o","r","i","t","y">>, << <<"N","e","w"," ","P","r","i","o","r","i","t","y">>, <<"N","e","w"," ","(","B","P","C","S",")"," ","P","r","i","o","r","i","t","y">> >> >>,
            << <<"C","a","u","s","e","(","s",")">>, << <<"C","a","u","s","e","(","s",")">> >> >>,
            << <<"C","o","n","s","e","q","u","e","n","c","e","(","s",")">>, << <<"C","o","n","s","e","q","u","e","n","c","e","(","s",")">> >> >>,
            << <<"I","n","s","i","d","e"," ","A","c","t","i","o","n","(","s",")">>, << <<"I","n","s","i","d","e"," ","A","c","t","i","o","n","(","s",")">> >> >>,
            << <<"O","u","t","s","i","d","e"," ","A","c","t","i","o","n","(","s",")">>, << <<"O","u","t","s","i","d","e"," ","A","c","t","i","o","n","(","s",")">> >> >>,
            << <<"M","a","x"," ","S","e","v","e","r","i","t","y">>, << <<"M","a","x"," ","S","e","v","e","r","i","t","y">> >> >>,
            << <<"T","T","R"," ","R","a","n","g","e">>, << <<"T","T","R"," ","R","a","n","g","e">>, <<"M","a","x"," ","T","i","m","e"," ","t","o"," ","R","e","s","o","l","v","e">>, <<"A","l","l","o","w","a","b","l","e"," ","T","i","m","e"," ","t","o"," ","R","e","s","p","o","n","d">> >> >> >>
    ELSE << << <<"T","a","g"," ","N","a","m","e">>, << <<"T","a","g"," ","N","a","m","e">> >> >>,
            << <<"T","a","g"," ","S","o","u","r","c","e">>, << <<"T","a","g"," ","S","o","u","r","c","e">> >> >>,
            << <<"A","l","a","r","m"," ","T","y","p","e">>, << <<"A","l","a","r","m"," ","T","y","p","e">> >> >>,
            << <<"N","e","w"," ","P","r","i","o","r","i","t","y">>, << <<"N","e","w"," ","P","r","i","o","r","i","t","y">>, <<"N","e","w"," ","(","B","P","C","S",")"," ","P","r","i","o","r","i","t","y">> >> >>,
            << <<"N","e","w"," ","L","i","m","i","t">>, << <<"N","e","w"," ","L","i","m","i","t">> >> >>,
            << <<"A","l","a","r","m"," ","S","t","a","t","u","s">>, << <<"A","l","a","r","m"," ","S","t","a","t","u","s">> >> >>,
            << <<"C","a","u","s","e","(","s",")">>, << <<"C","a","u","s","e","(","s",")">> >> >>,
            << <<"C","o","n","s","e","q","u","e","n","c","e","(","s",")">>, << <<"C","o","n","s","e","q","u","e","n","c","e","(","s",")">> >> >>,
            << <<"I","n","s","i","d","e"," ","A","c","t","i","o","n","(","s",")">>, << <<"I","n","s","i","d","e"," ","A","c","t","i","o","n","(","s",")">> >> >>,
            << <<"O","u","t","s","i","d","e"," ","A","c","t","i","o","n","(","s",")">>, << <<"O","u","t","s","i","d","e"," ","A","c","t","i","o","n","(","s",")">> >> >>,
            << <<"M","a","x"," ","S","e","v","e","r","i","t","y">>, << <<"M","a","x"," ","S","e","v","e","r","i","t","y">> >> >>,
            << <<"T","T","R"," ","R","a","n","g","e">>, << <<"T","T","R"," ","R","a","n","g","e">>, <<"A","l","l","o","w","a","b","l","e"," ","T","i","m","e"," ","t","o"," ","R","e","s","p","o","n","d">> >> >>,
            << <<"N","e","w"," ","I","n","d","i","v","i","d","u","a","l"," ","A","l","a","r","m"," ","E","n","a","b","l","e"," ","S","t","a","t","u","s">>, << <<"N","e","w"," ","I","n","d","i","v","i","d","u","a","l"," ","A","l","a","r","m"," ","E","n","a","b","l","e"," ","S","t","a","t","u","s">> >> >> >>

\* Whether any of the accepted names is a key of col_map
AnyAlternate(hdrs, alternates) ==
    \E j \in 1..Len(alternates) : col_map_get(hdrs, alternates[j]) # -1

\* validate_phapro_columns reporting only the first missing column.
validate_phapro_columns_FirstOnly(hdrs) ==
    LET absent == SelectSeq(required_columns, LAMBDA rc : ~AnyAlternate(hdrs, rc[2]))
    IN  IF absent = <<>> THEN <<>> ELSE << absent[1][1] >>

\* validate_phapro_columns accepting a column only under its first name.
validate_phapro_columns_NoAlias(hdrs) ==
    LET absent == SelectSeq(required_columns, LAMBDA rc : col_map_get(hdrs, rc[2][1]) = -1)
    IN  [i \in 1..Len(absent) |-> absent[i][1]]

\* AlarmTransformer.validate_phapro_columns: the missing logical names, in order
validate_phapro_columns(hdrs) ==
    LET absent == SelectSeq(required_columns, LAMBDA rc : ~AnyAlternate(hdrs, rc[2]))
    IN  [i \in 1..Len(absent) |-> absent[i][1]]

\* AlarmTransformer._get_col_flexible: the first non-blank stripped cell among names
get_col_flexible(hdrs, row, names, default) ==
    LET val(j) == LET idx == col_map_get(hdrs, names[j])
                  IN  IF idx # -1 /\ idx < Len(row) THEN strip(Cell(row, idx)) ELSE <<>>
        good == {j \in 1..Len(names) : val(j) # <<>>}
    IN  IF good = {} THEN default ELSE val(SetMin(good))

\* last_tag_source after a row, with the tag source read on every row.
carried_source_AnyRow(own_tag, tag_source, last) ==
    IF tag_source # <<>> THEN tag_source ELSE last

\* last_tag_source after a row: the tag source is read only inside `if tag_name:`
carried_source(own_tag, tag_source, last) ==
    IF own_tag # <<>> /\ tag_source # <<>> THEN tag_source ELSE last

\* `not row or not any(row)`: no cell, or only empty cells
BlankRow(row) == \A i \in 1..Len(row) : row[i] = <<>>

(***************************************************************************)
(* transform_reverse_abb                                                   *)
(***************************************************************************)
\* AlarmTransformer.ABB_RETURN_HEADERS
ABB_RETURN_HEADERS ==
    << <<"T","a","g"," ","N","a","m","e">>, <<"N","e","w"," ","T","a","g"," ","D","e","s","c","r","i","p","t","i","o","n">>, <<"N","e","w"," ","A","l","a","r","m"," ","T","y","p","e">>, <<"N","e","w"," ","A","l","a","r","m"," ","E","n","a","b","l","e"," ","S","t","a","t","u","s">>,
       <<"N","e","w"," ","L","i","m","i","t">>, <<"N","e","w"," ","P","r","i","o","r","i","t","y">>, <<"N","e","w"," ","A","l","a","r","m"," ","S","e","v","e","r","i","t","y"," ","L","e","v","e","l">>, <<"A","B","B"," ","C","o","n","s","o","l","i","d","a","t","e","d"," ","N","o","t","e","s">> >>

\* col_map.get(a, col_map.get(b, ... fallback)): the index of the first name
\* of the list the header has, else the fallback position
abb_col(hdrs, names, fallback) ==
    LET hits == {k \in 1..Len(names) : col_map_get(hdrs, names[k]) # -1}
    IN  IF hits = {} THEN fallback ELSE col_map_get(hdrs, names[SetMin(hits)])

\* row[idx].strip() if idx < len(row) else ""
abb_cell(row, idx) == IF idx < Len(row) THEN strip(Cell(row, idx)) ELSE <<>>

\* get_col(name, default) of transform_reverse_abb
abb_get_col(hdrs, row, name, default) ==
    LET idx == col_map_get(hdrs, name)
    IN  IF idx # -1 /\ idx < Len(row) /\ strip(Cell(row, idx)) # <<>>
        THEN strip(Cell(row, idx)) ELSE default

\* The loop of transform_reverse_abb from the i-th data row on; st holds
\* last_tag_name, last_description, seen_tags, stats and rows
RECURSIVE reverse_abb_rows(_, _, _, _)
reverse_abb_rows(hdrs, data, i, st) ==
    IF i > Len(data) THEN st
    ELSE
    LET row == data[i]
        own_name == abb_cell(row, abb_col(hdrs, << <<"N","e","w"," ","T","a","g"," ","N","a","m","e">>, <<"S","t","a","r","t","i","n","g"," ","T","a","g"," ","N","a","m","e">>,
                                                   <<"T","a","g"," ","N","a","m","e">> >>, 1))
        is_first_alarm_for_tag == own_name # <<>> /\ own_name # st.last_tag_name
        tag_name == IF own_name # <<>> THEN own_name ELSE st.last_tag_name
        desc == abb_cell(row, abb_col(hdrs, << <<"N","e","w"," ","T","a","g"," ","D","e","s","c","r","i","p","t","i","o","n">>,
                                               <<"O","l","d"," ","T","a","g"," ","D","e","s","c","r","i","p","t","i","o","n">> >>, 4))
        last_description == IF own_name # <<>> /\ desc # <<>> THEN desc
                            ELSE st.last_description
        stats_now == IF tag_name \in st.seen_tags THEN st.stats
                     ELSE [st.stats EXCEPT !.tags = @ + 1]
        alarm_type == abb_cell(row, abb_col(hdrs, << <<"N","e","w"," ","A","l","a","r","m"," ","T","y","p","e">>,
                                                     <<"S","t","a","r","t","i","n","g"," ","A","l","a","r","m"," ","T","y","p","e">> >>, 11))
        alarm_comment == abb_get_col(hdrs, row, <<"R","a","t","i","o","n","a","l","i","z","a","t","i","o","n"," ","(","A","l","a","r","m",")"," ","C","o","m","m","e","n","t">>, <<>>)
        output_row ==
            << IF is_first_alarm_for_tag THEN tag_name ELSE <<>>,
               IF is_first_alarm_for_tag THEN last_description ELSE <<>>,
               alarm_type,
               abb_get_col(hdrs, row, <<"N","e","w"," ","A","l","a","r","m"," ","E","n","a","b","l","e"," ","S","t","a","t","u","s">>, <<"0">>),
               abb_get_col(hdrs, row, <<"N","e","w"," ","L","i","m","i","t">>, <<"-","9","9","9","9","9","9","9">>),
               abb_get_col(hdrs, row, <<"N","e","w"," ","(","B","P","C","S",")"," ","P","r","i","o","r","i","t","y">>, <<"3">>),
               abb_get_col(hdrs, row, <<"N","e","w"," ","A","l","a","r","m"," ","S","e","v","e","r","i","t","y">>, <<"1">>),
               <<"C","a","u","s","e",":"," "," "," ","C","o","n","s","e","q","u","e","n","c","e",":"," "," "," ","A","c","t","i","o","n","s",":"," ">> \o alarm_comment >>
        seen == [st EXCEPT !.last_tag_name = tag_name,
                           !.last_description = last_description,
                           !.seen_tags = @ \cup {tag_name},
                           !.stats = stats_now]
    IN  IF row = <<>> \/ BlankRow(row) THEN reverse_abb_rows(hdrs, data, i + 1, st)
        ELSE IF alarm_type = <<>> THEN reverse_abb_rows(hdrs, data, i + 1, seen)
        ELSE reverse_abb_rows(hdrs, data, i + 1,
                 [seen EXCEPT !.stats = [stats_now EXCEPT !.alarms = @ + 1],
                              !.rows = Append(@, output_row)])

\* transform_reverse_abb(file_content): the rows and the stats
transform_reverse_abb(hdrs, data) ==
    reverse_abb_rows(hdrs, data, 1,
                     [last_tag_name |-> <<>>, last_description |-> <<>>, seen_tags |-> {},
                      stats |-> InitialStats, rows |-> <<>>])

\* The change entry transform_reverse stores for one PHA-Pro row
change_entry(hdrs, row, tag_source) ==
    LET get(names, default) == get_col_flexible(hdrs, row, names, default)
        rat_status == get(<< <<"R","a","t","i","o","n","a","l","i","z","a","t","i","o","n"," ","S","t","a","t","u","s">> >>, <<>>)
        given == get(<< <<"N","e","w"," ","I","n","d","i","v","i","d","u","a","l"," ","A","l","a","r","m"," ","E","n","a","b","l","e"," ","S","t","a","t","u","s">>, <<"N","e","w"," ","A","l","a","r","m"," ","E","n","a","b","l","e"," ","S","t","a","t","u","s">> >>, <<>>)
        enable_status ==
            IF given = <<>> /\ rat_status # <<>>
            THEN IF lower(rat_status) = <<"d","e","l","e","t","e","d">> THEN <<"T","r","u","e">> ELSE <<"F","a","l","s","e">>
            ELSE given
    IN  [ new_limit |-> get(<< <<"N","e","w"," ","L","i","m","i","t">> >>, <<>>),
          new_priority |-> get(<< <<"N","e","w"," ","P","r","i","o","r","i","t","y">>, <<"N","e","w"," ","(","B","P","C","S",")"," ","P","r","i","o","r","i","t","y">> >>, <<>>),
          max_severity |-> get(<< <<"M","a","x"," ","S","e","v","e","r","i","t","y">> >>, <<>>),
          ttr |-> get(<< <<"T","T","R"," ","R","a","n","g","e">>, <<"M","a","x"," ","T","i","m","e"," ","t","o"," ","R","e","s","o","l","v","e">>, <<"A","l","l","o","w","a","b","l","e"," ","T","i","m","e"," ","t","o"," ","R","e","s","p","o","n","d">> >>, <<"~">>),
          causes |-> get(<< <<"C","a","u","s","e","(","s",")">> >>, <<"~">>),
          consequences |-> get(<< <<"C","o","n","s","e","q","u","e","n","c","e","(","s",")">> >>, <<"~">>),
          inside_actions |-> get(<< <<"I","n","s","i","d","e"," ","A","c","t","i","o","n","(","s",")">> >>, <<"~">>),
          outside_actions |-> get(<< <<"O","u","t","s","i","d","e"," ","A","c","t","i","o","n","(","s",")">> >>, <<"~">>),
          new_enable_status |-> enable_status,
          tag_source |-> tag_source,
          rationalization_status |-> rat_status ]

(***************************************************************************)
(* transform_reverse: the merge of one original row                        *)
(***************************************************************************)
\* The fixed DCS row shape: while len(output_row) < 42
DCS_ROW_FIELDS == 42

\* The n/a tokens of the new-limit and new-priority fields
NA_TOKENS == << <<"{","n","/","a","}">>, <<"(","n","/","a",")">>, <<"n","/","a">>, <<"{","N","/","A","}">>, <<"(","N","/","A",")">>, <<"N","/","A">> >>

\* Commas removed from a numeric cell: only when the cell holds a comma and
\* float() reads what is left
clean_numeric(val) ==
    IF val # <<>> /\ OneOf(",", val) /\ FloatKind(remove(val, ",")) # "error"
    THEN remove(val, ",")
    ELSE val

\* The copy of the original row without the padding to 42 cells.
base_row_NoPadding(original_row) ==
    LET cleaned == [i \in 1..Len(original_row) |->
                        IF (i - 1) \in {31, 34, 37} THEN clean_numeric(original_row[i])
                        ELSE original_row[i]]
    IN  [cleaned EXCEPT ![1] = <<"'","_","V","a","r","i","a","b","l","e">>]

\* The copy of the original row that leaves cell 0 as it was.
base_row_NoMarker(original_row) ==
    LET padded == IF Len(original_row) < DCS_ROW_FIELDS
                  THEN original_row \o [i \in 1..(DCS_ROW_FIELDS - Len(original_row)) |-> <<>>]
                  ELSE original_row
    IN  [i \in 1..Len(padded) |->
            IF (i - 1) \in {31, 34, 37} THEN clean_numeric(padded[i]) ELSE padded[i]]

\* The copy of the original row: padded to 42 cells, commas cleaned in the
\* cells 31, 34 and 37, cell 0 rewritten
base_row(original_row) ==
    LET padded == IF Len(original_row) < DCS_ROW_FIELDS
                  THEN original_row \o [i \in 1..(DCS_ROW_FIELDS - Len(original_row)) |-> <<>>]
                  ELSE original_row
        cleaned == [i \in 1..Len(padded) |->
                        IF (i - 1) \in {31, 34, 37} THEN clean_numeric(padded[i]) ELSE padded[i]]
    IN  [cleaned EXCEPT ![1] = <<"'","_","V","a","r","i","a","b","l","e">>]

\* Whether the value cell is formatted from the new limit
LimitIsUsed(alarm_type, new_limit) ==
    LET limit == IF InList(new_limit, NA_TOKENS) THEN <<"~">> ELSE new_limit
    IN  /\ ~is_discrete(alarm_type)
        /\ ~contains(<<"s","i","g","n","i","f","i","c","a","n","t"," ","c","h","a","n","g","e">>, lower(alarm_type))
        /\ limit # <<>>
        /\ ~InList(limit, << <<"~">>, <<>>, <<"-","9","9","9","9","9","9","9">> >>)

\* int(num) of an infinite num raises OverflowError, which the code does not catch
LimitOverflows(alarm_type, new_limit) ==
    LimitIsUsed(alarm_type, new_limit) /\ FloatKind(remove(new_limit, ",")) = "inf"

\* Column H (index 7)
value_cell(alarm_type, new_limit) ==
    IF is_discrete(alarm_type) THEN <<"~">>
    ELSE IF contains(<<"s","i","g","n","i","f","i","c","a","n","t"," ","c","h","a","n","g","e">>, lower(alarm_type)) THEN <<"-","-","-","-","-","-","-","-">>
    ELSE IF LimitIsUsed(alarm_type, new_limit)
         THEN IF FloatKind(remove(new_limit, ",")) = "finite"
              THEN FormatNumber(remove(new_limit, ","))
              ELSE new_limit
         ELSE <<"-","-","-","-","-","-","-","-">>

\* priority_map of transform_reverse: <<key, DynAMo name>>
priority_map ==
    << << <<"U">>, <<"U","r","g","e","n","t">> >>, << <<"U","R","G","E","N","T">>, <<"U","r","g","e","n","t">> >>,
       << <<"C">>, <<"C","r","i","t","i","c","a","l">> >>, << <<"C","R","I","T","I","C","A","L">>, <<"C","r","i","t","i","c","a","l">> >>,
       << <<"H">>, <<"H","i","g","h">> >>, << <<"H","I","G","H">>, <<"H","i","g","h">> >>,
       << <<"M">>, <<"M","e","d","i","u","m">> >>, << <<"M","E","D","I","U","M">>, <<"M","e","d","i","u","m">> >>,
       << <<"L">>, <<"L","o","w">> >>, << <<"L","O","W">>, <<"L","o","w">> >>,
       << <<"J">>, <<"J","o","u","r","n","a","l">> >>, << <<"J","O","U","R","N","A","L">>, <<"J","o","u","r","n","a","l">> >>,
       << <<"J","O">>, <<"J","o","u","r","n","a","l">> >>,
       << <<"N">>, <<"N","o","n","e">> >>, << <<"N","O","N","E">>, <<"N","o","n","e">> >>,
       << <<"N","A">>, <<"N","O","A","C","T","I","O","N">> >>, << <<"N","O","A","C","T","I","O","N">>, <<"N","O","A","C","T","I","O","N">> >>,
       << <<"E">>, <<"E","M","E","R","G","N","C","Y">> >>, << <<"E","M","E","R","G","N","C","Y">>, <<"E","M","E","R","G","N","C","Y">> >> >>

\* Column K (index 10)
priority_cell(new_priority) ==
    IF InList(new_priority, NA_TOKENS) THEN <<"~">>
    ELSE LET hits == {i \in 1..Len(priority_map) : priority_map[i][1] = upper(new_priority)}
         IN  IF hits = {} THEN new_priority ELSE priority_map[SetMin(hits)][2]

\* Column M (index 12): <<written, value>>
consequence_cell(max_severity) ==
    IF InList(max_severity, << <<"A">>, <<"B">>, <<"C">>, <<"D">>, <<"E">> >>) THEN <<TRUE, max_severity>>
    ELSE IF max_severity # <<>> /\ InList(upper(max_severity), << <<"N","O","N","E">>, <<"(","N","O","N","E",")">>, <<"(","N",")">>, <<"N">> >>)
         THEN <<TRUE, <<"(","N","o","n","e",")">>>>
    ELSE IF max_severity # <<>> THEN <<TRUE, max_severity>>
    ELSE <<FALSE, <<>>>>

\* Column Z written in the capitalization of the PHA-Pro export.
disabled_cell_UpperCase(new_enable_status) ==
    IF new_enable_status = <<>> THEN <<FALSE, <<>>>>
    ELSE IF InList(upper(new_enable_status), << <<"T","R","U","E">>, <<"E","N","A","B","L","E","D">>, <<"1">> >>) THEN <<TRUE, <<"T","R","U","E">>>>
    ELSE IF InList(upper(new_enable_status), << <<"F","A","L","S","E">>, <<"D","I","S","A","B","L","E","D">>, <<"0">> >>) THEN <<TRUE, <<"F","A","L","S","E">>>>
    ELSE <<FALSE, <<>>>>

\* Column Z (index 25): <<written, value>>
disabled_cell(new_enable_status) ==
    IF new_enable_status = <<>> THEN <<FALSE, <<>>>>
    ELSE IF InList(upper(new_enable_status), << <<"T","R","U","E">>, <<"E","N","A","B","L","E","D">>, <<"1">> >>) THEN <<TRUE, <<"T","r","u","e">>>>
    ELSE IF InList(upper(new_enable_status), << <<"F","A","L","S","E">>, <<"D","I","S","A","B","L","E","D">>, <<"0">> >>) THEN <<TRUE, <<"F","a","l","s","e">>>>
    ELSE <<FALSE, <<>>>>

\* output_row[k] = value when the code writes the cell
SetCell(row, k, written, value) == IF written THEN [row EXCEPT ![k + 1] = value] ELSE row

\* The update of a matched row that also writes the consequence into cell 14.
apply_changes_ExtraCell(output_row, original_row, alarm_type, changes) ==
    [output_row EXCEPT ![8] = value_cell(alarm_type, changes.new_limit),
                       ![11] = priority_cell(changes.new_priority),
                       ![15] = changes.consequences]

\* The update of a matched row that writes the enforcement into the cells 8
\* and 11 of every matched row.
apply_changes_EnforceAlways(output_row, original_row, alarm_type, changes) ==
    LET enforcement == IF contains(<<"s","a","f","e","t","y"," ","m","a","n","a","g","e","r">>, lower(changes.tag_source))
                       THEN <<"R">> ELSE <<"M">>
        original_l == IF Len(original_row) > 11 THEN strip(Cell(original_row, 11)) ELSE <<>>
        r7 == SetCell(output_row, 7, TRUE, value_cell(alarm_type, changes.new_limit))
        r8 == SetCell(r7, 8, TRUE, enforcement)
        r10 == SetCell(r8, 10, TRUE, priority_cell(changes.new_priority))
        r11 == SetCell(r10, 11, TRUE, enforcement)
        r12 == SetCell(r11, 12, consequence_cell(changes.max_severity)[1],
                       consequence_cell(changes.max_severity)[2])
        r13 == SetCell(r12, 13, changes.ttr # <<>> /\ changes.ttr # <<"~">>, changes.ttr)
        r16 == SetCell(r13, 16, changes.causes # <<>>, fix_encoding(changes.causes))
        r17 == SetCell(r16, 17, changes.consequences # <<>>, fix_encoding(changes.consequences))
        r18 == SetCell(r17, 18, changes.inside_actions # <<>>, fix_encoding(changes.inside_actions))
        r19 == SetCell(r18, 19, changes.outside_actions # <<>>, fix_encoding(changes.outside_actions))
    IN  SetCell(r19, 25, disabled_cell(changes.new_enable_status)[1],
                disabled_cell(changes.new_enable_status)[2])

\* The update of a matched row from its change entry (the branch `key in pha_changes`)
apply_changes(output_row, original_row, alarm_type, changes) ==
    LET enforcement == IF contains(<<"s","a","f","e","t","y"," ","m","a","n","a","g","e","r">>, lower(changes.tag_source))
                       THEN <<"R">> ELSE <<"M">>
        original_l == IF Len(original_row) > 11 THEN strip(Cell(original_row, 11)) ELSE <<>>
        r7 == SetCell(output_row, 7, TRUE, value_cell(alarm_type, changes.new_limit))
        r8 == SetCell(r7, 8, Cell(r7, 6) # <<>>, enforcement)
        r10 == SetCell(r8, 10, TRUE, priority_cell(changes.new_priority))
        r11 == SetCell(r10, 11, original_l # <<>>, enforcement)
        r12 == SetCell(r11, 12, consequence_cell(changes.max_severity)[1],
                       consequence_cell(changes.max_severity)[2])
        r13 == SetCell(r12, 13, changes.ttr # <<>> /\ changes.ttr # <<"~">>, changes.ttr)
        r16 == SetCell(r13, 16, changes.causes # <<>>, fix_encoding(changes.causes))
        r17 == SetCell(r16, 17, changes.consequences # <<>>, fix_encoding(changes.consequences))
        r18 == SetCell(r17, 18, changes.inside_actions # <<>>, fix_encoding(changes.inside_actions))
        r19 == SetCell(r18, 19, changes.outside_actions # <<>>, fix_encoding(changes.outside_actions))
    IN  SetCell(r19, 25, disabled_cell(changes.new_enable_status)[1],
                disabled_cell(changes.new_enable_status)[2])

\* The mode filter of transform_reverse that keeps the rows of every mode.
reverse_mode_ok_KeepAll(mode, selected_modes) == TRUE

\* The mode filter of transform_reverse: whether a row of this mode is kept
reverse_mode_ok(mode, selected_modes) ==
    LET mode_upper == strip(upper(mode))
    IN  IF selected_modes.given
        THEN LET picked == SelectSeq(selected_modes.modes, LAMBDA m : m # <<"(","e","m","p","t","y",")">>)
                 selected_upper == [i \in 1..Len(picked) |-> upper(picked[i])]
                 allow_empty == InList(<<"(","e","m","p","t","y",")">>, selected_modes.modes)
             IN  InList(mode_upper, selected_upper) \/ (allow_empty /\ strip(mode) = <<>>)
        ELSE mode_upper = <<"N","O","R","M","A","L">> \/ (mode_upper = <<>> /\ config.empty_mode_is_valid)

(***************************************************************************)
(* generate_change_report                                                  *)
(***************************************************************************)
\* row[col_map.get(name, fallback)].strip() if the index is below len(row), else ""
report_key_cell(hdrs, row, name, fallback) ==
    LET idx == IF col_map_get(hdrs, name) = -1 THEN fallback ELSE col_map_get(hdrs, name)
    IN  IF idx < Len(row) THEN strip(Cell(row, idx)) ELSE <<>>

\* get_col of generate_change_report: the stripped cell under one header name
report_get_col(hdrs, row, name, default) ==
    LET idx == col_map_get(hdrs, name)
    IN  IF idx # -1 /\ idx < Len(row) /\ strip(Cell(row, idx)) # <<>>
        THEN strip(Cell(row, idx))
        ELSE default

\* The change entry generate_change_report stores for one PHA-Pro row
report_entry(hdrs, row, tag_source) ==
    [ new_limit |-> report_get_col(hdrs, row, <<"N","e","w"," ","L","i","m","i","t">>, <<>>),
      new_priority |-> report_get_col(hdrs, row, <<"N","e","w"," ","P","r","i","o","r","i","t","y">>, <<>>),
      max_severity |-> report_get_col(hdrs, row, <<"M","a","x"," ","S","e","v","e","r","i","t","y">>, <<>>),
      ttr |-> report_get_col(hdrs, row, <<"T","T","R"," ","R","a","n","g","e">>, <<>>),
      causes |-> report_get_col(hdrs, row, <<"C","a","u","s","e","(","s",")">>, <<>>),
      consequences |-> report_get_col(hdrs, row, <<"C","o","n","s","e","q","u","e","n","c","e","(","s",")">>, <<>>),
      inside_actions |-> report_get_col(hdrs, row, <<"I","n","s","i","d","e"," ","A","c","t","i","o","n","(","s",")">>, <<>>),
      outside_actions |-> report_get_col(hdrs, row, <<"O","u","t","s","i","d","e"," ","A","c","t","i","o","n","(","s",")">>, <<>>),
      new_enable_status |-> report_get_col(hdrs, row, <<"N","e","w"," ","I","n","d","i","v","i","d","u","a","l"," ","A","l","a","r","m"," ","E","n","a","b","l","e"," ","S","t","a","t","u","s">>, <<>>),
      tag_source |-> tag_source,
      unit |-> report_get_col(hdrs, row, <<"U","n","i","t">>, <<>>) ]

\* The lookup generate_change_report builds from rows_list[1:], from row i on
RECURSIVE report_changes(_, _, _, _, _, _)
report_changes(hdrs, data, i, changes, last_name, last_source) ==
    IF i > Len(data) THEN changes
    ELSE LET row == data[i]
             own_tag == report_key_cell(hdrs, row, <<"T","a","g"," ","N","a","m","e">>, 1)
             tag_source == report_key_cell(hdrs, row, <<"T","a","g"," ","S","o","u","r","c","e">>, 5)
             tag_name == IF own_tag # <<>> THEN own_tag ELSE last_name
             source == IF own_tag # <<>> /\ tag_source # <<>> THEN tag_source ELSE last_source
             alarm_type == report_key_cell(hdrs, row, <<"A","l","a","r","m"," ","T","y","p","e">>, 7)
         IN  IF BlankRow(row)
             THEN report_changes(hdrs, data, i + 1, changes, last_name, last_source)
             ELSE report_changes(hdrs, data, i + 1,
                     IF alarm_type = <<>> THEN changes
                     ELSE DictPut(changes, <<tag_name, alarm_type>>,
                                  report_entry(hdrs, row, source)),
                     tag_name, source)

\* The mode filter of generate_change_report
report_mode_ok(mode, selected_modes) ==
    LET mode_upper == strip(upper(mode))
    IN  IF selected_modes.given
        THEN LET picked == SelectSeq(selected_modes.modes, LAMBDA m : m # <<"(","e","m","p","t","y",")">>)
                 selected_upper == [i \in 1..Len(picked) |-> upper(picked[i])]
                 allow_empty == InList(<<"(","e","m","p","t","y",")">>, selected_modes.modes)
             IN  InList(mode_upper, selected_upper) \/ (allow_empty /\ strip(mode) = <<>>)
        ELSE mode_upper = <<"N","O","R","M","A","L">>

\* original_row[k].strip() if len(original_row) > k else ""
report_orig(original_row, k) ==
    IF Len(original_row) > k THEN strip(Cell(original_row, k)) ELSE <<>>

\* The 9 cells generate_change_report compares, in the order of its record
REPORT_CELLS == <<7, 10, 12, 13, 16, 17, 18, 19, 25>>

\* priority_map of generate_change_report: the entries of transform_reverse's
\* map up to N/NONE, without the NA, NOACTION, E and EMERGNCY entries
report_priority_map == SubSeq(priority_map, 1, 15)

\* text[:100] + '...' if len(text) > 100 else text
clip(text) == IF Len(text) > 100 THEN SubSeq(text, 1, 100) \o <<".",".",".">> ELSE text

\* The 9 new values generate_change_report computes for one original row
report_new_values(original_row, alarm_type, changes) ==
    LET raw == changes.new_priority
        hits == {i \in 1..Len(report_priority_map) : report_priority_map[i][1] = upper(raw)}
        new_priority == IF InList(raw, NA_TOKENS) THEN <<"~">>
                        ELSE IF raw = <<>> THEN <<>>
                        ELSE IF hits = {} THEN raw
                        ELSE report_priority_map[SetMin(hits)][2]
        max_severity == changes.max_severity
        new_consequence ==
            IF InList(max_severity, << <<"A">>, <<"B">>, <<"C">>, <<"D">>, <<"E">> >>) THEN max_severity
            ELSE IF max_severity # <<>> /\ InList(upper(max_severity), << <<"N","O","N","E">>, <<"(","N","O","N","E",")">>, <<"(","N",")">>, <<"N">> >>)
                 THEN <<"(","N","o","n","e",")">>
            ELSE IF max_severity # <<>> THEN max_severity
            ELSE report_orig(original_row, 12)
        or_orig(text, k) == IF text # <<>> THEN text ELSE report_orig(original_row, k)
        enable_upper == upper(changes.new_enable_status)
        new_disabled ==
            IF changes.new_enable_status = <<>> THEN report_orig(original_row, 25)
            ELSE IF InList(enable_upper, << <<"T","R","U","E">>, <<"E","N","A","B","L","E","D">>, <<"1">> >>) THEN <<"T","R","U","E">>
            ELSE IF InList(enable_upper, << <<"F","A","L","S","E">>, <<"D","I","S","A","B","L","E","D">>, <<"0">> >>) THEN <<"F","A","L","S","E">>
            ELSE report_orig(original_row, 25)
    IN  << value_cell(alarm_type, changes.new_limit),
           new_priority,
           new_consequence,
           IF changes.ttr # <<>> /\ changes.ttr # <<"~">> THEN changes.ttr
           ELSE report_orig(original_row, 13),
           or_orig(changes.causes, 16),
           or_orig(changes.consequences, 17),
           or_orig(changes.inside_actions, 18),
           or_orig(changes.outside_actions, 19),
           new_disabled >>

\* One record of change_records: the original and new values and the changed
\* marks of the 9 cells, in the order of REPORT_CELLS
report_record(original_row, tag_name, alarm_type, changes) ==
    LET new == report_new_values(original_row, alarm_type, changes)
        orig == [n \in 1..9 |-> report_orig(original_row, REPORT_CELLS[n])]
    IN  [ Unit |-> changes.unit,
          Tag_Name |-> tag_name,
          Alarm_Type |-> alarm_type,
          Tag_Source |-> changes.tag_source,
          Original |-> [n \in 1..9 |-> IF n \in 5..8 THEN clip(orig[n]) ELSE orig[n]],
          New |-> [n \in 1..9 |-> IF n \in 5..8 THEN clip(new[n]) ELSE new[n]],
          Changed |-> [n \in 1..9 |-> orig[n] # new[n]] ]

\* The loop of generate_change_report over source_data['rows'], from row i on:
\* the records so far, and whether int(num) raised
RECURSIVE report_records(_, _, _, _, _, _)
report_records(data, i, changes, selected_modes, seen, records) ==
    IF i > Len(data) THEN [raised |-> FALSE, records |-> records]
    ELSE LET original_row == data[i]
             tag_name == Cell(original_row, 1)
             alarm_type == Cell(original_row, 5)
             key == <<tag_name, alarm_type>>
             skip(seen_now) == report_records(data, i + 1, changes, selected_modes, seen_now, records)
         IN  IF Len(original_row) < 6 THEN skip(seen)
             ELSE IF \/ ~InList(Cell(original_row, 0), << <<"_","V","a","r","i","a","b","l","e">>, <<"'","_","V","a","r","i","a","b","l","e">> >>)
                     \/ Cell(original_row, 2) # <<"_","P","a","r","a","m","e","t","e","r">>
                  THEN skip(seen)
             ELSE IF ~report_mode_ok(Cell(original_row, 3), selected_modes) THEN skip(seen)
             ELSE IF key \in seen THEN skip(seen)
             ELSE IF key \notin DOMAIN changes THEN skip(seen \cup {key})
             ELSE IF LimitOverflows(alarm_type, changes[key].new_limit)
                  THEN [raised |-> TRUE, records |-> records]
             ELSE LET record == report_record(original_row, tag_name, alarm_type, changes[key])
                  IN  report_records(data, i + 1, changes, selected_modes, seen \cup {key},
                                     IF \E n \in 1..9 : record.Changed[n]
                                     THEN Append(records, record)
                                     ELSE records)

\* AlarmTransformer.generate_change_report, up to the list change_records
generate_change_report(hdrs, pha_rows, source_data_rows, selected_modes) ==
    report_records(source_data_rows, 1,
                   report_changes(hdrs, pha_rows, 1, <<>>, <<>>, <<>>),
                   selected_modes, {}, <<>>)

(***************************************************************************)
(* transform_reverse: the inputs of the model                              *)
(***************************************************************************)
MaxPhaRows == 2
MaxOrigRows == 2

\* PHA-Pro export headers that hold every required column of the FLNG and of
\* the HFS variant, under the names the exports use
FlngExport ==
    << <<"T","a","g"," ","N","a","m","e">>, <<"T","a","g"," ","S","o","u","r","c","e">>, <<"A","l","a","r","m"," ","T","y","p","e">>, <<"N","e","w"," ","(","B","P","C","S",")"," ","P","r","i","o","r","i","t","y">>, <<"N","e","w"," ","L","i","m","i","t">>,
       <<"A","l","a","r","m"," ","S","t","a","t","u","s">>, <<"C","a","u","s","e","(","s",")">>, <<"C","o","n","s","e","q","u","e","n","c","e","(","s",")">>, <<"I","n","s","i","d","e"," ","A","c","t","i","o","n","(","s",")">>,
       <<"O","u","t","s","i","d","e"," ","A","c","t","i","o","n","(","s",")">>, <<"M","a","x"," ","S","e","v","e","r","i","t","y">>, <<"A","l","l","o","w","a","b","l","e"," ","T","i","m","e"," ","t","o"," ","R","e","s","p","o","n","d">>,
       <<"N","e","w"," ","I","n","d","i","v","i","d","u","a","l"," ","A","l","a","r","m"," ","E","n","a","b","l","e"," ","S","t","a","t","u","s">> >>

HfsExport ==
    << <<"S","t","a","r","t","i","n","g"," ","T","a","g"," ","N","a","m","e">>, <<"T","a","g"," ","S","o","u","r","c","e">>, <<"N","e","w"," ","A","l","a","r","m"," ","T","y","p","e">>, <<"N","e","w"," ","L","i","m","i","t">>,
       <<"N","e","w"," ","P","r","i","o","r","i","t","y">>, <<"R","a","t","i","o","n","a","l","i","z","a","t","i","o","n"," ","S","t","a","t","u","s">>, <<" ","C","a","u","s","e","(","s",")"," ">>, <<"C","o","n","s","e","q","u","e","n","c","e","(","s",")">>,
       <<"I","n","s","i","d","e"," ","A","c","t","i","o","n","(","s",")">>, <<"O","u","t","s","i","d","e"," ","A","c","t","i","o","n","(","s",")">>, <<"M","a","x"," ","S","e","v","e","r","i","t","y">>, <<"M","a","x"," ","T","i","m","e"," ","t","o"," ","R","e","s","o","l","v","e">> >>

Without(hdrs, names) == SelectSeq(hdrs, LAMBDA h : ~InList(strip(h), names))

Renamed(hdrs, old, new) == [i \in 1..Len(hdrs) |-> IF hdrs[i] = old THEN new ELSE hdrs[i]]

\* The header rows the model tries: complete ones, ones that lack one or
\* several required columns, a wrong-case name, the forward headers, no header
HeaderChoices ==
    { FlngExport, HfsExport, HFS_PHAPRO_HEADERS, <<>>,
      Without(FlngExport, << <<"C","a","u","s","e","(","s",")">> >>),
      Without(HfsExport, << <<"C","a","u","s","e","(","s",")">> >>),
      Without(FlngExport, << <<"N","e","w"," ","(","B","P","C","S",")"," ","P","r","i","o","r","i","t","y">>, <<"M","a","x"," ","S","e","v","e","r","i","t","y">>, <<"T","a","g"," ","N","a","m","e">> >>),
      Without(HfsExport, << <<"M","a","x"," ","T","i","m","e"," ","t","o"," ","R","e","s","o","l","v","e">>, <<"N","e","w"," ","L","i","m","i","t">> >>),
      Renamed(FlngExport, <<"C","a","u","s","e","(","s",")">>, <<"c","a","u","s","e","(","s",")">>) }

\* A PHA-Pro data row laid out under a header: each cell holds the field of
\* its column
FieldOf(name, f) ==
    IF InList(name, << <<"T","a","g"," ","N","a","m","e">>, <<"N","e","w"," ","T","a","g"," ","N","a","m","e">>, <<"S","t","a","r","t","i","n","g"," ","T","a","g"," ","N","a","m","e">> >>) THEN f.tag
    ELSE IF InList(name, << <<"A","l","a","r","m"," ","T","y","p","e">>, <<"N","e","w"," ","A","l","a","r","m"," ","T","y","p","e">>, <<"S","t","a","r","t","i","n","g"," ","A","l","a","r","m"," ","T","y","p","e">> >>) THEN f.type
    ELSE IF name = <<"T","a","g"," ","S","o","u","r","c","e">> THEN f.source
    ELSE IF name = <<"N","e","w"," ","L","i","m","i","t">> THEN f.limit
    ELSE IF InList(name, << <<"N","e","w"," ","P","r","i","o","r","i","t","y">>, <<"N","e","w"," ","(","B","P","C","S",")"," ","P","r","i","o","r","i","t","y">> >>) THEN f.priority
    ELSE IF name = <<"M","a","x"," ","S","e","v","e","r","i","t","y">> THEN f.severity
    ELSE IF InList(name, << <<"T","T","R"," ","R","a","n","g","e">>, <<"M","a","x"," ","T","i","m","e"," ","t","o"," ","R","e","s","o","l","v","e">>, <<"A","l","l","o","w","a","b","l","e"," ","T","i","m","e"," ","t","o"," ","R","e","s","p","o","n","d">> >>) THEN f.ttr
    ELSE IF InList(name, << <<"C","a","u","s","e","(","s",")">>, <<"C","o","n","s","e","q","u","e","n","c","e","(","s",")">>, <<"I","n","s","i","d","e"," ","A","c","t","i","o","n","(","s",")">>, <<"O","u","t","s","i","d","e"," ","A","c","t","i","o","n","(","s",")">> >>) THEN f.text
    ELSE IF InList(name, << <<"N","e","w"," ","I","n","d","i","v","i","d","u","a","l"," ","A","l","a","r","m"," ","E","n","a","b","l","e"," ","S","t","a","t","u","s">>, <<"N","e","w"," ","A","l","a","r","m"," ","E","n","a","b","l","e"," ","S","t","a","t","u","s">> >>) THEN f.enable
    ELSE IF name = <<"R","a","t","i","o","n","a","l","i","z","a","t","i","o","n"," ","S","t","a","t","u","s">> THEN f.rat
    ELSE <<>>

MkPhaRow(hdrs, f) ==
    LET full == [i \in 1..Len(hdrs) |-> FieldOf(strip(hdrs[i]), f)]
    IN  IF f.cells < Len(full) THEN SubSeq(full, 1, f.cells) ELSE full

PhaFields(tag, source, type, limit, priority, severity, ttr, text, enable, rat, cells) ==
    [tag |-> tag, source |-> source, type |-> type, limit |-> limit, priority |-> priority,
     severity |-> severity, ttr |-> ttr, text |-> text, enable |-> enable, rat |-> rat,
     cells |-> cells]

\* The PHA-Pro data rows the model tries
PhaRowChoices ==
    { PhaFields(<<"T","1">>, <<"H","o","n","e","y","w","e","l","l"," ","T","D","C"," ","(","D","C","S",")">>, <<"(","P","V",")"," ","H","i","g","h">>, <<" ","1",",","5","0","0",".","5","0"," ">>, <<"h">>, <<"B">>,
                <<"1","0"," ","m","i","n">>, <<"P","u","m","p"," ","t","r","i","p">>, <<"E","n","a","b","l","e","d">>, <<>>, 99),
      PhaFields(<<>>, <<"S","a","f","e","t","y"," ","M","a","n","a","g","e","r"," ","(","S","I","S",")">>, <<"(","P","V",")"," ","L","o","w">>, <<"{","n","/","a","}">>, <<"N","/","A">>, <<"n","o","n","e">>,
                <<>>, << "a", "U+00C3", "U+0083", "U+00E2", "U+0080", "U+009A", " ", "b" >>, <<>>, <<"D","e","l","e","t","e","d">>, 99),
      PhaFields(<<"T","2">>, <<"S","a","f","e","t","y"," ","M","a","n","a","g","e","r"," ","(","S","I","S",")">>, <<"B","a","d"," ","P","V">>, <<"5">>, <<"J","o","u","r","n","a","l">>, <<>>,
                <<"~">>, <<>>, <<"m","a","y","b","e">>, <<"C","o","m","p","l","e","t","e">>, 99),
      PhaFields(<<"T","1">>, <<>>, <<"(","P","V",")"," ","H","i","g","h">>, <<"-","0",".","5","0">>, <<"P","1">>, <<"X">>,
                <<"~">>, <<"~">>, <<"0">>, <<>>, 99),
      PhaFields(<<"T","2">>, <<>>, <<"(","P","V",")"," ","L","o","w">>, <<"I","n","f","i","n","i","t","y">>, <<>>, <<>>,
                <<>>, <<>>, <<>>, <<>>, 99),
      PhaFields(<<"T","2">>, <<>>, <<"(","P","V",")"," ","L","o","w">>, <<"n","a","n">>, <<"L">>, <<"(","N",")">>,
                <<>>, <<>>, <<"Y","e","s">>, <<>>, 99),
      PhaFields(<<"T","3">>, <<"x">>, <<>>, <<"7">>, <<"L">>, <<>>, <<>>, <<>>, <<>>, <<>>, 99),
      PhaFields(<<"T","3">>, <<"x">>, <<"S","i","g","n","i","f","i","c","a","n","t"," ","C","h","a","n","g","e">>, <<"7">>, <<"L">>, <<"E">>, <<"1">>, <<"c">>, <<"1">>, <<>>, 4),
      PhaFields(<<>>, <<>>, <<>>, <<>>, <<>>, <<>>, <<>>, <<>>, <<>>, <<>>, 99) }

\* A cell of an original row that the merge never reads: distinct per index
Filler(k) == << "f", Digits[(k \div 10) + 1], Digits[(k % 10) + 1] >>

\* An original DCS row of `cells` cells
MkOrig(marker, tag, schema, mode, type, name, enforcement, delay, cells) ==
    [i \in 1..cells |->
        CASE i - 1 = 0 -> marker
          [] i - 1 = 1 -> tag
          [] i - 1 = 2 -> schema
          [] i - 1 = 3 -> mode
          [] i - 1 = 5 -> type
          [] i - 1 = 6 -> name
          [] i - 1 = 11 -> enforcement
          [] i - 1 \in {31, 37} -> delay
          [] OTHER -> Filler(i - 1)]

\* The original rows the model tries: of 5, 6, 26, 42, 43 and 44 cells, of the
\* modes NORMAL, Base and none, with real and placeholder alarm types
OrigRowChoices ==
    { MkOrig(<<"_","V","a","r","i","a","b","l","e">>, <<"T","1">>, <<"_","P","a","r","a","m","e","t","e","r">>, <<"N","O","R","M","A","L">>, <<"(","P","V",")"," ","H","i","g","h">>, <<"P","V","H","I">>, <<"M">>, <<"1",",","5","0","0">>, 42),
      MkOrig(<<"_","V","a","r","i","a","b","l","e">>, <<"T","1">>, <<"_","P","a","r","a","m","e","t","e","r">>, <<" ","n","o","r","m","a","l"," ">>, <<"(","P","V",")"," ","L","o","w">>, <<>>, <<>>, <<"a",",","b">>, 43),
      MkOrig(<<"_","V","a","r","i","a","b","l","e">>, <<"T","2">>, <<"_","P","a","r","a","m","e","t","e","r">>, <<>>, <<"B","a","d"," ","P","V">>, <<"B","A","D","P","V">>, <<" ">>, <<>>, 6),
      MkOrig(<<"_","V","a","r","i","a","b","l","e">>, <<"T","2">>, <<"_","P","a","r","a","m","e","t","e","r">>, <<"N","O","R","M","A","L">>, <<"(","P","V",")"," ","L","o","w">>, <<"P","V","L","O">>, <<"R">>, <<"2",",","5",",","0",".","5">>, 26),
      MkOrig(<<"_","V","a","r","i","a","b","l","e">>, <<"T","1">>, <<"_","P","a","r","a","m","e","t","e","r">>, <<"B","a","s","e">>, <<"(","P","V",")"," ","H","i","g","h">>, <<"P","V","H","I">>, <<"M">>, <<"3">>, 42),
      MkOrig(<<"_","V","a","r","i","a","b","l","e">>, <<"T","2">>, <<"_","P","a","r","a","m","e","t","e","r">>, <<"N","O","R","M","A","L">>, <<" ","~"," ">>, <<>>, <<>>, <<>>, 42),
      MkOrig(<<"_","V","a","r","i","a","b","l","e">>, <<"T","3">>, <<"_","P","a","r","a","m","e","t","e","r">>, <<"N","O","R","M","A","L">>, <<"S","i","g","n","i","f","i","c","a","n","t"," ","C","h","a","n","g","e">>, <<"S","C">>, <<>>, <<",","i","n","f">>, 44),
      MkOrig(<<"_","V","a","r","i","a","b","l","e">>, <<"T","1">>, <<"_","P","a","r","a","m","e","t","e","r">>, <<"N","O","R","M","A","L">>, <<"(","P","V",")"," ","H","i","g","h">>, <<"P","V","H","I">>, <<"M">>, <<>>, 5),
      MkOrig(<<"_","V","a","r","i","a","b","l","e">>, <<"T","1">>, <<"_","D","C","S">>, <<"N","O","R","M","A","L">>, <<"(","P","V",")"," ","H","i","g","h">>, <<"P","V","H","I">>, <<"M">>, <<>>, 42),
      MkOrig(<<"'","_","V","a","r","i","a","b","l","e">>, <<"T","1">>, <<"_","P","a","r","a","m","e","t","e","r">>, <<"N","O","R","M","A","L">>, <<"(","P","V",")"," ","H","i","g","h">>, <<"P","V","H","I">>, <<"M">>, <<>>, 42) }

\* selected_modes: None, or a list of mode names
ModeSelections ==
    { [given |-> FALSE, modes |-> <<>>],
      [given |-> TRUE, modes |-> << <<"N","o","r","m","a","l">>, <<"b","a","s","e">> >>],
      [given |-> TRUE, modes |-> << <<"B","A","S","E">>, <<"(","e","m","p","t","y",")">> >>] }

\* source_data: None, {}, a dict without 'rows', a dict with 'rows'
SourceKinds == {"None", "empty", "no_rows", "rows"}

ReverseCalls ==
    [fn : {"transform_reverse"}, source_data : SourceKinds, selected_modes : ModeSelections]

(***************************************************************************)
(* transform_forward and transform_forward_abb: the inputs of the model    *)
(***************************************************************************)
MaxLines == 3
MaxAbbRows == 2

\* A row of n cells: the given cells, and a filler in every other place
RowOf(cells, n) ==
    [i \in 1..n |-> IF (i - 1) \in DOMAIN cells THEN cells[i - 1] ELSE Filler(i - 1)]

\* The rows of the DCS export the model tries
LineChoices ==
    { RowOf(0 :> <<" ","_","V","a","r","i","a","b","l","e"," ">> @@ 1 :> <<"1","7","T","I","1">> @@ 2 :> <<"_","D","C","S","V","a","r","i","a","b","l","e">>
            @@ 3 :> <<"/","A","s","s","e","t","s","/","L","Q","F","/","U","1","7","/","1","7","_","F","L","A","R","E","/","1","7","H","-","2">> @@ 8 :> <<"S","M","_","A","I">>, 9),
      RowOf(0 :> <<"_","V","a","r","i","a","b","l","e">> @@ 1 :> <<"6","1","P","I","2">> @@ 2 :> <<"_","D","C","S","V","a","r","i","a","b","l","e">>, 3),
      RowOf(0 :> <<"_","V","a","r","i","a","b","l","e">> @@ 1 :> <<"1","7","T","I","1">> @@ 2 :> <<"_","D","C","S">> @@ 3 :> <<"~">>
            @@ 4 :> <<"a","n","a">> @@ 5 :> <<"1",",","0","0","0">> @@ 6 :> <<"-","-","-","-","-","-","-","-">> @@ 7 :> <<>>
            @@ 10 :> <<"1","7","H">>, 11),
      RowOf(0 :> <<"_","V","a","r","i","a","b","l","e">> @@ 1 :> <<"1","7","T","I","1">> @@ 2 :> <<"_","P","a","r","a","m","e","t","e","r">> @@ 3 :> <<"N","O","R","M","A","L">>
            @@ 5 :> <<"(","P","V",")"," ","H","i","g","h">> @@ 7 :> <<"1",",","5","0","0">> @@ 10 :> <<"H","i","g","h">> @@ 12 :> <<"M","a","j","o","r">>
            @@ 13 :> <<"1","0"," ","m","i","n">> @@ 16 :> <<>> @@ 25 :> <<"F","a","l","s","e">> @@ 31 :> <<"~">>
            @@ 34 :> <<" ","1",",","5"," ">>, 42),
      RowOf(0 :> <<"_","V","a","r","i","a","b","l","e">> @@ 1 :> <<"1","7","T","I","1">> @@ 2 :> <<"_","P","a","r","a","m","e","t","e","r">> @@ 3 :> <<"B","a","s","e">>
            @@ 5 :> <<"B","a","d"," ","P","V">> @@ 7 :> <<"5">> @@ 10 :> <<"J","o","u","r","n","a","l">> @@ 12 :> <<"~">>
            @@ 25 :> <<"F","A","L","S","E">>, 26),
      RowOf(0 :> <<"_","V","a","r","i","a","b","l","e">> @@ 1 :> <<" ","6","1","P","I","2"," ">> @@ 2 :> <<"_","P","a","r","a","m","e","t","e","r">> @@ 3 :> <<>>
            @@ 5 :> <<"(","P","V",")"," ","L","o","w">> @@ 7 :> <<"-","-","-","-","-","-","-","-">> @@ 10 :> <<"n","o","a","c","t","i","o","n">>, 11),
      RowOf(0 :> <<"_","V","a","r","i","a","b","l","e">> @@ 1 :> <<"9","9","X","X","1">> @@ 2 :> <<"_","P","a","r","a","m","e","t","e","r">> @@ 3 :> <<"I","M","P","O","R","T">>
            @@ 5 :> <<"(","P","V",")"," ","H","i","g","h">> @@ 7 :> <<"7">>, 8),
      RowOf(0 :> <<"_","V","a","r","i","a","b","l","e">> @@ 1 :> <<"6","1","P","I","2">> @@ 2 :> <<"_","P","a","r","a","m","e","t","e","r">>, 3),
      RowOf(0 :> <<"_","V","a","r","i","a","b","l","e">> @@ 1 :> <<"6","1","P","I","2">> @@ 2 :> <<"_","P","a","r","a","m","e","t","e","r">> @@ 3 :> <<"n","o","r","m","a","l">>
            @@ 5 :> <<" ","~"," ">>, 6),
      RowOf(0 :> <<"_","V","a","r","i","a","b","l","e">> @@ 1 :> <<"1","7","T","I","1">> @@ 2 :> <<"_","N","o","t","e","s">> @@ 11 :> <<"P","I","D","-","1">>, 12),
      RowOf(0 :> <<"'","_","V","a","r","i","a","b","l","e">> @@ 1 :> <<"1","7","T","I","1">> @@ 2 :> <<"_","P","a","r","a","m","e","t","e","r">> @@ 3 :> <<"B","a","s","e">>, 6) }

ForwardCall(selected_units, unit_method, given, modes) ==
    [fn |-> "transform_forward", selected_units |-> selected_units,
     unit_method |-> unit_method, selected_modes |-> [given |-> given, modes |-> modes]]

\* The arguments of transform_forward the model tries; <<>> stands for None
ForwardCalls ==
    { ForwardCall(<<>>, <<>>, FALSE, <<>>),
      ForwardCall(<<>>, <<>>, TRUE, << <<"N","O","R","M","A","L">> >>),
      ForwardCall(<< <<"6","1">> >>, <<>>, TRUE, << <<"N","o","r","m","a","l">>, <<"(","e","m","p","t","y",")">> >>),
      ForwardCall(<< <<"1","7","_","F","L","A","R","E">>, <<"9","9">> >>, <<"a","s","s","e","t","_","p","a","r","e","n","t">>, FALSE, <<>>),
      ForwardCall(<<>>, <<"A","S","S","E","T","_","C","H","I","L","D">>, TRUE, <<>>),
      ForwardCall(<< <<"6">> >>, <<"t","a","g","_","p","r","e","f","i","x">>, TRUE, << <<"b","a","s","e">> >>),
      ForwardCall(<<>>, <<>>, TRUE, << <<"B","a","s","e">>, <<"n","o","r","m","a","l">> >>),
      ForwardCall(<< <<"1","7","H">> >>, <<"A","s","s","e","t","_","C","h","i","l","d">>, FALSE, <<>>) }

\* The three columns of every configured suffix, in the order of the suffixes
AlarmColumns ==
    LET trio(k) == << <<"A","E","C","o","n","f">> \o abb_alarm_types[k][1], <<"A","E","L","e","v","e","l">> \o abb_alarm_types[k][1],
                      <<"A","E","S","e","v">> \o abb_alarm_types[k][1] >>
    IN  trio(1) \o trio(2) \o trio(3) \o trio(4) \o trio(5) \o trio(6) \o trio(7)

\* The column rows of the ABB workbooks the model tries
AbbColumnChoices ==
    { << <<"T","y","p","e">>, <<"O","b","j","e","c","t"," ","N","a","m","e">>, <<"D","e","s","c","r","i","p","t","i","o","n">>, <<"A","E","C","o","n","f","H">>, <<"A","E","L","e","v","e","l","H">>, <<"A","E","S","e","v","H">>,
         <<"A","E","C","o","n","f","H","H">>, <<"A","E","L","e","v","e","l","H","H">> >>,
      << <<"a">>, <<"b">>, <<"c">>, <<"T","a","g">>, <<"D","e","s","c">>, <<"A","E","L","e","v","e","l","L">>, <<"A","E","C","o","n","f","O","E">> >>,
      << <<"N","a","m","e">>, <<"D","e","s","c","r","i","p","t","i","o","n">> >> \o AlarmColumns,
      <<>> }

\* The number of letters the suffix of an alarm column repeats: 2 for HH and
\* LL, 3 for HHH and LLL, else 1
SuffixDepth(column) ==
    LET u == upper(column)
        ends(t) == Len(u) >= Len(t) /\ SubSeq(u, Len(u) - Len(t) + 1, Len(u)) = t
    IN  IF ends(<<"H","H","H">>) \/ ends(<<"L","L","L">>) THEN 3
        ELSE IF ends(<<"H","H">>) \/ ends(<<"L","L">>) THEN 2
        ELSE 1

\* A data row laid out under the columns; a row with `deeper` values has
\* other values in its HH/LL and HHH/LLL columns than in its H/L columns
AbbFieldOf(column, f) ==
    LET g == IF "deeper" \in DOMAIN f /\ SuffixDepth(column) > 1
             THEN f.deeper[SuffixDepth(column) - 1] ELSE f
    IN  IF upper(column) \in { <<"O","B","J","E","C","T"," ","N","A","M","E">>, <<"T","A","G">>, <<"N","A","M","E">> } THEN f.name
        ELSE IF upper(column) \in { <<"D","E","S","C","R","I","P","T","I","O","N">>, <<"D","E","S","C">> } THEN f.desc
        ELSE IF contains(<<"A","E","C","O","N","F">>, upper(column)) THEN g.conf
        ELSE IF contains(<<"A","E","L","E","V","E","L">>, upper(column)) THEN g.level
        ELSE IF contains(<<"A","E","S","E","V">>, upper(column)) THEN g.sev
        ELSE [t |-> "str", v |-> <<"x">>]

MkAbbRow(columns, f) == [i \in 1..Len(columns) |-> AbbFieldOf(columns[i], f)]

Num(v) == [t |-> "num", v |-> v]
Str(v) == [t |-> "str", v |-> v]
Blank == [t |-> "nan"]

\* The data rows of the ABB workbooks the model tries
AbbRowChoices ==
    { [name |-> Str(<<"T","I","-","1","0","0">>), desc |-> Str(<<" ","T","e","m","p"," ">>), conf |-> Num(<<"1">>),
       level |-> Num(<<"8","5",".","5","0">>), sev |-> Num(<<"2",".","0">>),
       deeper |-> << [conf |-> Num(<<"0">>), level |-> Num(<<"9","5">>), sev |-> Num(<<"4">>)],
                     [conf |-> Blank, level |-> Str(<<"9","9",".","5">>), sev |-> Num(<<"5">>)] >>],
      [name |-> Str(<<"P","I","-","2","0","0">>), desc |-> Blank, conf |-> Blank,
       level |-> Blank, sev |-> Str(<<"x">>)],
      [name |-> Blank, desc |-> Str(<<"d">>), conf |-> Num(<<"1">>),
       level |-> Num(<<"1">>), sev |-> Num(<<"1">>)],
      [name |-> Num(<<"3","0","0">>), desc |-> Str(<<>>), conf |-> Str(<<" ","1"," ">>),
       level |-> Str(<<"n","/","a">>), sev |-> Blank],
      [name |-> Str(<<"F","I","-","4","0","0">>), desc |-> Str(<<"F","l","o","w">>), conf |-> Num(<<"0">>),
       level |-> Str(<<"I","n","f","i","n","i","t","y">>), sev |-> Num(<<"3">>)] }

\* file_bytes: a workbook with its column row, or bytes read_excel rejects
AbbCalls ==
    [fn : {"transform_forward_abb"}, readable : BOOLEAN, columns : AbbColumnChoices]

(***************************************************************************)
(* Calls of the pure derivation rules                                      *)
(***************************************************************************)
PriorityNames ==
    { <<"U","r","g","e","n","t">>, <<"u","r","g","e","n","t">>, <<"C","R","I","T","I","C","A","L">>, <<"C","r","i","t","i","c","a","l">>, <<" ","H","i","g","h"," ">>, <<"H","i","g","h">>,
      <<"M","e","d","i","u","m">>, <<"L","o","w">>, <<"J","o","u","r","n","a","l">>, <<"J","O","U","R","N","A","L"," ">>, <<"N","o","n","e">>, <<"n","o","n","e">>,
      <<"N","O","A","C","T","I","O","N">>, <<"n","o","a","c","t","i","o","n">>, <<"E","M","E","R","G","N","C","Y">>, <<"H","i"," ","g","h">>, <<"H","i","g","h","e","s","t">>,
      <<"J">>, <<"~">>, <<>> }

DisabledValues ==
    { <<>>, <<"F","A","L","S","E">>, <<"F","a","l","s","e">>, <<"f","a","l","s","e">>, <<"T","R","U","E">>, <<"T","r","u","e">>, <<" ","F","A","L","S","E">>, <<"0">> }

PureCalls ==
    [fn : {"map_priority"}, priority : PriorityNames, disabled_value : DisabledValues]

\* The consequence texts the model gives map_severity; <<>> stands for both
\* "" and None, which `not consequence` treats alike
SeverityTexts ==
    { <<"A">>, <<"B">>, <<"C">>, <<"D">>, <<"E">>, <<"a">>, <<" ","b"," ">>, <<>>, <<"~">>, <<"-">>, <<" ","~"," ">>, <<" "," ">>,
      <<"M","a","j","o","r">>, <<"m","i","n","o","r"," ","i","n","j","u","r","y">>, <<"C","a","t">>, <<"M">>, <<"N">>, <<"S","e","v","e","r","e">>, <<"(","N",")">>, <<"N","o","n","e">>,
      <<"X">>, <<"M","o","d","e","r","a","t","e"," ">>, <<"I","n","s","i","g","n","i","f","i","c","a","n","t">>, <<"A","B">>, <<"F">> }

SeverityCalls == [fn : {"map_severity"}, consequence : SeverityTexts]

\* The tag names, asset paths and methods the model gives extract_unit;
\* method <<>> stands for None
UnitTagNames ==
    { <<"1","7","T","I","5","8","7","9">>, <<"T","I","1","7">>, <<"1","A","2","3">>, <<"A","B","C">>, <<>>, <<"1","2","3","4","5","6">>, <<"7","-","U","P">>, <<" ","6","1","P","I","2">> }

UnitAssetPaths ==
    { <<>>, <<"/","U","1","7","/","1","7","_","F","L","A","R","E","/","1","7","H","-","2">>, <<"/","A","s","s","e","t","s","/","L","Q","F","/","U","1","7","/","1","7","_","F","L","A","R","E","/","1","7","H","-","2">>, <<"/","u","1","7","/","1","7","_","F","L","A","R","E">>,
      <<"/","U","1","7","/">>, <<"/","A","s","s","e","t","s","/","U","n","i","t","1","7","/","1","7","_","F","L","A","R","E","/","1","7","H","-","2">>, <<"/","U","X","/","U","2","/","A","/","/","B","/">>, <<"/","U","1","7">>, <<"U","1","7","/","A","/","B">>,
      <<"/","U","1","/","/">>, <<"/","U","n","i","t","5","/","U","6","/","X","/","Y">>, <<"/","U","1","7","/","1","7","T","I","5","8","7","9">> }

UnitMethods ==
    { <<>>, <<"T","A","G","_","P","R","E","F","I","X">>, <<"t","a","g","_","p","r","e","f","i","x">>, <<"A","S","S","E","T","_","P","A","R","E","N","T">>, <<"a","s","s","e","t","_","p","a","r","e","n","t">>,
      <<"A","S","S","E","T","_","C","H","I","L","D">>, <<"A","s","s","e","t","_","C","h","i","l","d">>, <<"A","S","S","E","T","_","P","A","T","H">>, <<"B","O","T","H">> }

\* The tag names and point types the model gives derive_tag_source
SourceTagNames ==
    { <<"S","M","_","T","A","G","0","0","1">>, <<"T","A","G","0","0","1">>, <<"1","7","T","I",".","P","V">>, <<"p","-","1","0","1","a">>, <<"P","-","1","0","1","A">>, <<>> }

SourcePointTypes ==
    { <<"S","M">>, <<"s","m","_","a","i">>, <<"S","M","_","A","I">>, <<"A","N","A">>, <<"a","n","a">>, <<"S","t","a">>, <<"U","N","K","N","O","W","N","_","T","Y","P","E">>, <<>>,
      <<"P","I","D">>, <<"P","i","d","-","p","l">>, <<"S","M","X">>, <<"A","N","A","L","G","I","N">>, <<"x","A","I","x">> }

TagSourceCalls ==
    [fn : {"derive_tag_source"}, tag_name : SourceTagNames, point_type : SourcePointTypes]

UnitCalls ==
    [fn : {"extract_unit"}, tag_name : UnitTagNames, asset_path : UnitAssetPaths,
     method : UnitMethods]

\* The mode cells and selected_modes values the model gives the mode filters of
\* transform_forward and transform_reverse
ModeTexts ==
    { <<"N","O","R","M","A","L">>, <<"N","o","r","m","a","l">>, <<"n","o","r","m","a","l">>, <<" ","N","O","R","M","A","L"," ">>, <<"N","O","R","M","A","L"," ">>, <<>>, <<" ">>, <<" "," ">>,
      <<"B","a","s","e">>, <<" ","b","a","s","e">>, <<"I","M","P","O","R","T">>, <<"(","e","m","p","t","y",")">>, <<"(","E","M","P","T","Y",")">> }

FilterSelections ==
    ModeSelections \cup
    { [given |-> TRUE, modes |-> <<>>],
      [given |-> TRUE, modes |-> << <<"N","O","R","M","A","L">> >>],
      [given |-> TRUE, modes |-> << <<"(","e","m","p","t","y",")">> >>],
      [given |-> TRUE, modes |-> << <<" ","n","o","r","m","a","l"," ">>, <<"I","m","p","o","r","t">> >>],
      [given |-> TRUE, modes |-> << <<"N","o","r","m","a","l">>, <<"(","e","m","p","t","y",")">>, <<"B","a","s","e">> >>] }

ModeFilterCalls == [fn : {"mode_filter"}, mode : ModeTexts, selected_modes : FilterSelections]

ReverseIdle ==
    /\ headers = <<>>
    /\ pha_changes = <<>>
    /\ last_tag_name = <<>>
    /\ last_tag_source = <<>>
    /\ seen_keys = {}
    /\ seen_tags = {}
    /\ n_pha = 0

OutputIdle ==
    /\ rows = <<>>
    /\ header_row = <<>>
    /\ source_rows = <<>>
    /\ n_read = 0

ForwardIdle ==
    /\ schemas = EmptySchemas
    /\ file_rows = <<>>
    /\ abb_tags = <<>>

ReportIdle ==
    /\ rows_list = <<>>
    /\ original_rows = <<>>
    /\ change_records = <<>>

\* A new transformer: self.stats is the dict of __init__, nothing returned yet
SessionIdle ==
    /\ stats_obj = 0
    /\ returned = <<>>

InitPure ==
    /\ pc = "called"
    /\ \/ config = CLIENT_CONFIGS.flng /\ call \in PureCalls \cup SeverityCalls
       \/ /\ config \in {CLIENT_CONFIGS.flng, CLIENT_CONFIGS.hfs_artesia,
                         CLIENT_CONFIGS.rt_bessemer}
          /\ call \in ModeFilterCalls
       \/ config \in {CLIENT_CONFIGS.flng, CLIENT_CONFIGS.hfs_artesia} /\ call \in UnitCalls
       \/ /\ config \in {CLIENT_CONFIGS.flng, CLIENT_CONFIGS.hfs_artesia,
                         CLIENT_CONFIGS.rt_bessemer, EXTERNAL_CONFIG}
          /\ call \in TagSourceCalls
    /\ stats = InitialStats
    /\ result = <<>>
    /\ ReverseIdle
    /\ OutputIdle
    /\ ForwardIdle
    /\ ReportIdle
    /\ SessionIdle

CallMapPriority ==
    /\ pc = "called"
    /\ call.fn = "map_priority"
    /\ result' = map_priority(call.priority, call.disabled_value)
    /\ pc' = "returned"
    /\ UNCHANGED <<config, stats, call, reverseVars, outputVars, forwardVars, reportVars>>
    /\ UNCHANGED sessionVars

CallMapSeverity ==
    /\ pc = "called"
    /\ call.fn = "map_severity"
    /\ result' = map_severity(call.consequence)
    /\ pc' = "returned"
    /\ UNCHANGED <<config, stats, call, reverseVars, outputVars, forwardVars, reportVars>>
    /\ UNCHANGED sessionVars

CallExtractUnit ==
    /\ pc = "called"
    /\ call.fn = "extract_unit"
    /\ result' = extract_unit(call.tag_name, call.asset_path, call.method)
    /\ pc' = "returned"
    /\ UNCHANGED <<config, stats, call, reverseVars, outputVars, forwardVars, reportVars>>
    /\ UNCHANGED sessionVars

CallDeriveTagSource ==
    /\ pc = "called"
    /\ call.fn = "derive_tag_source"
    /\ result' = derive_tag_source(call.tag_name, call.point_type)
    /\ pc' = "returned"
    /\ UNCHANGED <<config, stats, call, reverseVars, outputVars, forwardVars, reportVars>>
    /\ UNCHANGED sessionVars

\* The mode filter of the first loop of transform_forward and the one of the
\* merge loop of transform_reverse, on one mode cell
ApplyModeFilter ==
    /\ pc = "called"
    /\ call.fn = "mode_filter"
    /\ result' = [forward |-> forward_mode_ok(call.mode, call.selected_modes),
                  reverse |-> reverse_mode_ok(call.mode, call.selected_modes)]
    /\ pc' = "returned"
    /\ UNCHANGED <<config, stats, call, reverseVars, outputVars, forwardVars, reportVars>>
    /\ UNCHANGED sessionVars

NextPure ==
    \/ ApplyModeFilter
    \/ CallMapPriority
    \/ CallMapSeverity
    \/ CallExtractUnit
    \/ CallDeriveTagSource

SpecPure == InitPure /\ [][NextPure]_vars

(***************************************************************************)
(* transform_reverse                                                       *)
(***************************************************************************)
\* `not source_data or 'rows' not in source_data`, tested for None only.
source_missing_NoneOnly(source_data) == source_data = "None"

\* `not source_data or 'rows' not in source_data`
source_missing(source_data) == source_data \in {"None", "empty", "no_rows"}

\* The counters of an emitted row, with every row also counted as not found.
counted_stats_AlwaysNotFound(st, new_tag, matched) ==
    [st EXCEPT !.tags = IF new_tag THEN @ + 1 ELSE @,
               !.alarms = @ + 1,
               !.updated = IF matched THEN @ + 1 ELSE @,
               !.not_found = @ + 1]

\* The counters of a row that passed the filters: tags, alarms, and one of
\* updated and not_found
counted_stats(st, new_tag, matched) ==
    [st EXCEPT !.tags = IF new_tag THEN @ + 1 ELSE @,
               !.alarms = @ + 1,
               !.updated = IF matched THEN @ + 1 ELSE @,
               !.not_found = IF matched THEN @ ELSE @ + 1]

InitReverse ==
    /\ pc = "called"
    /\ config \in {CLIENT_CONFIGS.flng, CLIENT_CONFIGS.hfs_artesia}
    /\ stats = InitialStats
    /\ call \in ReverseCalls
    /\ result = <<>>
    /\ ReverseIdle
    /\ OutputIdle
    /\ ForwardIdle
    /\ ReportIdle
    /\ SessionIdle

\* headers = next(reader); col_map; validate_phapro_columns; raise on a missing
\* column, else the change-set starts empty
ReverseReadHeader ==
    /\ pc = "called"
    /\ call.fn = "transform_reverse"
    /\ \E hdrs \in HeaderChoices :
         /\ headers' = hdrs
         /\ IF validate_phapro_columns(hdrs) # <<>>
            THEN /\ pc' = "raised"
                 /\ result' = [error |-> "MISSING_COLUMNS",
                               missing |-> validate_phapro_columns(hdrs)]
            ELSE /\ pc' = "pha_rows"
                 /\ result' = result
    /\ UNCHANGED <<config, stats, call, pha_changes, last_tag_name, last_tag_source,
                   seen_keys, seen_tags, n_pha, outputVars, forwardVars, reportVars>>
    /\ UNCHANGED sessionVars

\* One iteration of `for row in reader`
ReverseReadPhaRow ==
    /\ pc = "pha_rows"
    /\ n_pha < MaxPhaRows
    /\ \E f \in PhaRowChoices :
         LET row == MkPhaRow(headers, f)
             own_tag == get_col_flexible(headers, row,
                            << <<"T","a","g"," ","N","a","m","e">>, <<"N","e","w"," ","T","a","g"," ","N","a","m","e">>, <<"S","t","a","r","t","i","n","g"," ","T","a","g"," ","N","a","m","e">> >>, <<>>)
             tag_source == get_col_flexible(headers, row, << <<"T","a","g"," ","S","o","u","r","c","e">> >>, <<>>)
             tag_name == IF own_tag # <<>> THEN own_tag ELSE last_tag_name
             source == carried_source(own_tag, tag_source, last_tag_source)
             alarm_type == get_col_flexible(headers, row,
                            << <<"A","l","a","r","m"," ","T","y","p","e">>, <<"N","e","w"," ","A","l","a","r","m"," ","T","y","p","e">>, <<"S","t","a","r","t","i","n","g"," ","A","l","a","r","m"," ","T","y","p","e">> >>, <<>>)
         IN  /\ rows_list' = Append(rows_list, row)
             /\ IF BlankRow(row)
                THEN UNCHANGED <<pha_changes, last_tag_name, last_tag_source>>
                ELSE /\ last_tag_name' = tag_name
                     /\ last_tag_source' = source
                     /\ pha_changes' =
                           IF alarm_type = <<>> THEN pha_changes
                           ELSE DictPut(pha_changes, <<tag_name, alarm_type>>,
                                        change_entry(headers, row, source))
    /\ n_pha' = n_pha + 1
    /\ UNCHANGED <<pc, config, stats, call, result, headers, seen_keys, seen_tags,
                   outputVars, forwardVars, original_rows, change_records>>
    /\ UNCHANGED sessionVars

\* After the last PHA-Pro row: the source check, then the reset of the stats
ReverseCheckSource ==
    /\ pc = "pha_rows"
    /\ IF source_missing(call.source_data)
       THEN /\ pc' = "raised"
            /\ result' = [error |-> "ORIGINAL_FILE_REQUIRED"]
            /\ stats' = stats
       ELSE /\ pc' = "original_rows"
            /\ result' = result
            /\ stats' = [tags |-> 0, alarms |-> 0, units |-> {}, updated |-> 0,
                         not_found |-> 0, skipped_modes |-> 0]
    /\ UNCHANGED <<config, call, reverseVars, outputVars, forwardVars, reportVars>>
    /\ stats_obj' = IF source_missing(call.source_data) THEN stats_obj
                    ELSE new_dict(stats_obj)
    /\ UNCHANGED returned

\* One iteration of `for original_row in source_data['rows']`
ReverseMergeRow ==
    /\ pc = "original_rows"
    /\ n_read < MaxOrigRows
    /\ n_read' = n_read + 1
    /\ \E original_row \in OrigRowChoices :
      /\ original_rows' = Append(original_rows, original_row)
      /\ IF \/ Len(original_row) < 6
            \/ Cell(original_row, 0) # <<"_","V","a","r","i","a","b","l","e">>
            \/ Cell(original_row, 2) # <<"_","P","a","r","a","m","e","t","e","r">>
         THEN UNCHANGED <<pc, stats, result, seen_keys, seen_tags, rows, source_rows>>
         ELSE
         LET tag_name == Cell(original_row, 1)
             mode == Cell(original_row, 3)
             alarm_type == Cell(original_row, 5)
             key == <<tag_name, alarm_type>>
             matched == key \in DOMAIN pha_changes
         IN  IF ~reverse_mode_ok(mode, call.selected_modes)
             THEN /\ stats' = [stats EXCEPT !.skipped_modes = @ + 1]
                  /\ UNCHANGED <<pc, result, seen_keys, seen_tags, rows, source_rows>>
             ELSE IF alarm_type = <<>> \/ InList(strip(alarm_type), << <<"~">>, <<"-">>, <<>> >>)
             THEN UNCHANGED <<pc, stats, result, seen_keys, seen_tags, rows, source_rows>>
             ELSE IF key \in seen_keys
             THEN UNCHANGED <<pc, stats, result, seen_keys, seen_tags, rows, source_rows>>
             ELSE IF matched /\ LimitOverflows(alarm_type, pha_changes[key].new_limit)
             THEN /\ pc' = "raised"
                  /\ result' = [error |-> "OverflowError"]
                  /\ stats' = counted_stats(stats, tag_name \notin seen_tags, TRUE)
                  /\ seen_keys' = seen_keys \cup {key}
                  /\ seen_tags' = seen_tags \cup {tag_name}
                  /\ UNCHANGED <<rows, source_rows>>
             ELSE /\ seen_keys' = seen_keys \cup {key}
                  /\ seen_tags' = seen_tags \cup {tag_name}
                  /\ stats' = counted_stats(stats, tag_name \notin seen_tags, matched)
                  /\ rows' = Append(rows,
                                IF matched
                                THEN apply_changes(base_row(original_row), original_row,
                                                   alarm_type, pha_changes[key])
                                ELSE base_row(original_row))
                  /\ source_rows' = Append(source_rows,
                                           [row |-> original_row, matched |-> matched])
                  /\ UNCHANGED <<pc, result>>
    /\ UNCHANGED <<config, call, headers, pha_changes, last_tag_name, last_tag_source,
                   n_pha, header_row, forwardVars, rows_list, change_records>>
    /\ UNCHANGED sessionVars

\* After the last original row: the rows are written without a header row and
\* returned with the stats
ReverseReturn ==
    /\ pc = "original_rows"
    /\ pc' = "returned"
    /\ result' = [rows |-> rows, stats |-> stats]
    /\ UNCHANGED <<config, stats, call, reverseVars, outputVars, forwardVars, reportVars>>
    /\ UNCHANGED sessionVars

\* generate_change_report(pha_content, source_data, selected_modes), called
\* with the arguments of the transform_reverse call that returned
GenerateChangeReport ==
    /\ pc = "returned"
    /\ call.fn = "transform_reverse"
    /\ LET report == generate_change_report(headers, rows_list, original_rows,
                                            call.selected_modes)
       IN  /\ pc' = IF report.raised THEN "report_raised" ELSE "reported"
           /\ change_records' = report.records
    /\ UNCHANGED <<config, stats, call, result, reverseVars, outputVars, forwardVars,
                   rows_list, original_rows>>
    /\ UNCHANGED sessionVars

NextReverse ==
    \/ ReverseReadHeader
    \/ ReverseReadPhaRow
    \/ ReverseCheckSource
    \/ ReverseMergeRow
    \/ ReverseReturn

SpecReverse == InitReverse /\ [][NextReverse]_vars

(***************************************************************************)
(* transform_reverse followed by generate_change_report on the same export,*)
(* original rows and selected modes, for the FLNG profile                  *)
(***************************************************************************)
InitReport ==
    /\ InitReverse
    /\ config = CLIENT_CONFIGS.flng
    /\ call.source_data = "rows"

NextReport ==
    \/ ReverseReadHeader
    \/ ReverseReadPhaRow
    \/ ReverseCheckSource
    \/ ReverseMergeRow
    \/ ReverseReturn
    \/ GenerateChangeReport

SpecReport == InitReport /\ [][NextReport]_vars

(***************************************************************************)
(* transform_forward                                                       *)
(***************************************************************************)
InitForward ==
    /\ pc = "called"
    /\ \/ config \in {CLIENT_CONFIGS.flng, CLIENT_CONFIGS.hfs_artesia} /\ call \in ForwardCalls
       \/ config = CLIENT_CONFIGS.rt_bessemer /\ call \in AbbCalls
    /\ stats = InitialStats
    /\ result = <<>>
    /\ ReverseIdle
    /\ OutputIdle
    /\ ForwardIdle
    /\ ReportIdle
    /\ SessionIdle

\* One iteration of `for row in reader` of parse_dynamo_csv
ForwardParseRow ==
    /\ pc = "called"
    /\ call.fn = "transform_forward"
    /\ n_read < MaxLines
    /\ \E row \in LineChoices :
         /\ schemas' = parse_row(schemas, row)
         /\ file_rows' = Append(file_rows, row)
    /\ n_read' = n_read + 1
    /\ UNCHANGED <<pc, config, stats, call, result, reverseVars, rows, header_row,
                   source_rows, abb_tags, reportVars>>
    /\ UNCHANGED sessionVars

\* After the last row: the tag list, its sort, the rows, the header row
ForwardTransform ==
    /\ pc = "called"
    /\ call.fn = "transform_forward"
    /\ LET kept == kept_tags(schemas, call.selected_units, call.unit_method,
                             call.selected_modes)
           tags == SortedTags({tag_record(schemas, t, call.unit_method, call.selected_modes) :
                                  t \in kept})
           out == forward_rows(tags, 1, NoUnit)
       IN  /\ rows' = out
           /\ header_row' = get_phapro_headers
           /\ stats' = [tags |-> Len(tags),
                        alarms |-> Len(out),
                        units |-> {final_unit(schemas, t, call.unit_method) : t \in kept},
                        skipped_modes |-> skipped_modes_of(schemas, visited_tags(schemas),
                                                           call.selected_modes)]
           /\ result' = [header |-> get_phapro_headers, rows |-> out, stats |-> stats']
    /\ pc' = "returned"
    /\ UNCHANGED <<config, call, reverseVars, source_rows, n_read, forwardVars, reportVars>>
    /\ stats_obj' = new_dict(stats_obj)
    /\ UNCHANGED returned

\* pd.read_excel rejects the bytes, or the frame has no column for name_col
AbbReadFails ==
    /\ pc = "called"
    /\ call.fn = "transform_forward_abb"
    /\ ~call.readable \/ name_col_raises(call.columns)
    /\ pc' = "raised"
    /\ result' = [error |-> IF call.readable THEN "IndexError" ELSE "read_excel"]
    /\ UNCHANGED <<config, stats, call, reverseVars, outputVars, forwardVars, reportVars>>
    /\ UNCHANGED sessionVars

\* One iteration of `for _, row in df.iterrows()` of parse_abb_excel
AbbParseRow ==
    /\ pc = "called"
    /\ call.fn = "transform_forward_abb"
    /\ call.readable /\ ~name_col_raises(call.columns)
    /\ n_read < MaxAbbRows
    /\ \E f \in AbbRowChoices :
         LET tag_data == abb_tag_data(call.columns, MkAbbRow(call.columns, f))
         IN  /\ file_rows' = Append(file_rows, MkAbbRow(call.columns, f))
             /\ abb_tags' = IF tag_data.tag_name = <<>> \/ tag_data.tag_name = <<"n","a","n">>
                             THEN abb_tags
                             ELSE Append(abb_tags, tag_data)
    /\ n_read' = n_read + 1
    /\ UNCHANGED <<pc, config, stats, call, result, reverseVars, rows, header_row,
                   source_rows, schemas, reportVars>>
    /\ UNCHANGED sessionVars

\* After the last row of the frame: the rows and the header row, or the
\* exception of int(level_val) with the counters as they stood
AbbTransform ==
    /\ pc = "called"
    /\ call.fn = "transform_forward_abb"
    /\ call.readable /\ ~name_col_raises(call.columns)
    /\ IF abb_raises(abb_tags)
       THEN LET i == SetMin({j \in 1..Len(abb_tags) :
                                \E k \in 1..Len(abb_tags[j].alarms) :
                                    level_raises(abb_tags[j].alarms[k].level)})
                k == SetMin({m \in 1..Len(abb_tags[i].alarms) :
                                level_raises(abb_tags[i].alarms[m].level)})
            IN  /\ pc' = "raised"
                /\ result' = [error |-> IF abb_tags[i].alarms[k].level = <<"n","a","n">>
                                        THEN "ValueError" ELSE "OverflowError"]
                /\ stats' = [tags |-> i,
                             alarms |-> (i - 1) * Len(abb_alarm_types) + k,
                             units |-> {config.unit_value}]
                /\ UNCHANGED <<rows, header_row>>
       ELSE /\ pc' = "returned"
            /\ rows' = abb_rows(abb_tags, 1)
            /\ header_row' = ABB_PHAPRO_HEADERS
            /\ stats' = [tags |-> Len(abb_tags),
                         alarms |-> Len(abb_tags) * Len(abb_alarm_types),
                         units |-> {config.unit_value}]
            /\ result' = [header |-> ABB_PHAPRO_HEADERS, rows |-> rows', stats |-> stats']
    /\ UNCHANGED <<config, call, reverseVars, source_rows, n_read, forwardVars, reportVars>>
    /\ stats_obj' = new_dict(stats_obj)
    /\ UNCHANGED returned

NextForward ==
    \/ ForwardParseRow
    \/ ForwardTransform
    \/ AbbReadFails
    \/ AbbParseRow
    \/ AbbTransform

SpecForward == InitForward /\ [][NextForward]_vars

(***************************************************************************)
(* transform_forward on whole DCS exports: parse_dynamo_csv reads the file *)
(* in one step, then the rows are built                                    *)
(***************************************************************************)
VariableLine(tag, asset_path, point_type) ==
    RowOf(0 :> <<"_","V","a","r","i","a","b","l","e">> @@ 1 :> tag @@ 2 :> <<"_","D","C","S","V","a","r","i","a","b","l","e">> @@ 3 :> asset_path
          @@ 8 :> point_type, 9)

DcsLine(tag, eng_units, desc) ==
    RowOf(0 :> <<"_","V","a","r","i","a","b","l","e">> @@ 1 :> tag @@ 2 :> <<"_","D","C","S">> @@ 3 :> eng_units @@ 4 :> <<>>
          @@ 5 :> <<"1",",","0","0","0">> @@ 6 :> <<"-","-","-","-","-","-","-","-">> @@ 7 :> desc @@ 10 :> <<"1","7","H">>, 11)

ParameterLine(tag, mode, alarm_type) ==
    RowOf(0 :> <<"_","V","a","r","i","a","b","l","e">> @@ 1 :> tag @@ 2 :> <<"_","P","a","r","a","m","e","t","e","r">> @@ 3 :> mode
          @@ 5 :> alarm_type @@ 7 :> <<"1","0">> @@ 10 :> <<"H","i","g","h">> @@ 12 :> <<"B">>
          @@ 25 :> <<"F","a","l","s","e">>, 26)

NotesLine(tag, doc_ref) ==
    RowOf(0 :> <<"_","V","a","r","i","a","b","l","e">> @@ 1 :> tag @@ 2 :> <<"_","N","o","t","e","s">> @@ 11 :> doc_ref, 12)

\* The DCS exports the model runs whole: two tags of one unit, a tag whose
\* first entries have a placeholder alarm type, tags of two units out of
\* order, a first tag of a unit without any live entry, entries of modes the
\* calls do not select
ForwardFiles ==
    { << VariableLine(<<"1","7","T","I","1">>, <<"/","A","s","s","e","t","s","/","U","1","7","/","1","7","_","F","L","A","R","E","/","1","7","H","-","2">>, <<"S","M","_","A","I">>),
         VariableLine(<<"1","7","T","I","2">>, <<"/","A","s","s","e","t","s","/","U","1","7","/","1","7","_","F","L","A","R","E","/","1","7","H","-","2">>, <<>>),
         DcsLine(<<"1","7","T","I","1">>, <<"~">>, <<>>),
         ParameterLine(<<"1","7","T","I","1">>, <<"N","O","R","M","A","L">>, <<"~">>),
         ParameterLine(<<"1","7","T","I","1">>, <<"N","O","R","M","A","L">>, <<"(","P","V",")"," ","H","i","g","h">>),
         ParameterLine(<<"1","7","T","I","1">>, <<"N","O","R","M","A","L">>, <<"B","a","d"," ","P","V">>),
         ParameterLine(<<"1","7","T","I","2">>, <<"N","O","R","M","A","L">>, <<"(","P","V",")"," ","L","o","w">>) >>,
      << VariableLine(<<"6","1","P","I","2">>, <<"/","A","s","s","e","t","s","/","U","6","1","/","6","1","_","L","N","G","/","6","1","A">>, <<"A","N","A">>),
         VariableLine(<<"1","7","T","I","1">>, <<"/","A","s","s","e","t","s","/","U","1","7","/","1","7","_","F","L","A","R","E","/","1","7","H","-","2">>, <<"S","M","_","A","I">>),
         DcsLine(<<"6","1","P","I","2">>, <<"d","e","g","C">>, <<"T","a","n","k"," ","p","r","e","s","s","u","r","e">>),
         NotesLine(<<"6","1","P","I","2">>, <<"P","I","D","-","6","1","-","0","0","2">>),
         ParameterLine(<<"6","1","P","I","2">>, <<"N","O","R","M","A","L">>, <<"(","P","V",")"," ","H","i","g","h">>),
         ParameterLine(<<"1","7","T","I","1">>, <<"N","O","R","M","A","L">>, <<"(","P","V",")"," ","H","i","g","h">>),
         ParameterLine(<<"6","1","P","I","2">>, <<"N","O","R","M","A","L">>, <<"(","P","V",")"," ","L","o","w">>),
         ParameterLine(<<"1","7","T","I","1">>, <<"B","a","s","e">>, <<"(","P","V",")"," ","L","o","w">>) >>,
      << VariableLine(<<"1","7","T","I","1">>, <<>>, <<>>),
         VariableLine(<<"1","7","T","I","2">>, <<>>, <<"D","I","G","I","T","A","L">>),
         VariableLine(<<"1","7","T","I","3">>, <<>>, <<>>),
         ParameterLine(<<"1","7","T","I","1">>, <<"N","O","R","M","A","L">>, <<" ","-"," ">>),
         ParameterLine(<<"1","7","T","I","2">>, <<"N","O","R","M","A","L">>, <<>>),
         ParameterLine(<<"1","7","T","I","2">>, <<"B","a","s","e">>, <<"(","P","V",")"," ","H","i","g","h">>),
         ParameterLine(<<"1","7","T","I","2">>, <<"N","O","R","M","A","L">>, <<"(","P","V",")"," ","H","i","g","h">>),
         ParameterLine(<<"1","7","T","I","3">>, <<>>, <<"(","P","V",")"," ","L","o","w">>),
         ParameterLine(<<"1","7","T","I","3">>, <<"n","o","r","m","a","l">>, <<"(","P","V",")"," ","H","i","g","h"," ","H","i","g","h">>) >>,
      << VariableLine(<<"6","1","P","I","2">>, <<"/","A","s","s","e","t","s","/","U","6","1","/","6","1","_","L","N","G","/","6","1","A">>, <<"A","N","A">>),
         ParameterLine(<<"6","1","P","I","2">>, <<"N","O","R","M","A","L">>, <<"(","P","V",")"," ","H","i","g","h">>),
         ParameterLine(<<"6","1","P","I","2">>, <<>>, <<"(","P","V",")"," ","L","o","w">>),
         ParameterLine(<<"9","9","X","X","1">>, <<"N","O","R","M","A","L">>, <<"(","P","V",")"," ","L","o","w">>) >>,
      << ParameterLine(<<"1","7","T","I","1">>, <<"N","O","R","M","A","L">>, <<"(","P","V",")"," ","H","i","g","h">>) >>,
      << >> }

\* transform_forward(file_content, selected_units, unit_method, selected_modes)
ForwardFileCalls ==
    { [fn |-> c.fn, selected_units |-> c.selected_units, unit_method |-> c.unit_method,
       selected_modes |-> c.selected_modes, file_content |-> f] :
         c \in ForwardCalls, f \in ForwardFiles }

\* parse_dynamo_csv: the four sub-tables after the rows of the file from i on
RECURSIVE parse_rows(_, _, _)
parse_rows(sch, file, i) ==
    IF i > Len(file) THEN sch ELSE parse_rows(parse_row(sch, file[i]), file, i + 1)

parse_dynamo_csv(file) == parse_rows(EmptySchemas, file, 1)

InitForwardFile ==
    /\ pc = "parsing"
    /\ config \in {CLIENT_CONFIGS.flng, CLIENT_CONFIGS.hfs_artesia}
    /\ call \in ForwardFileCalls
    /\ stats = InitialStats
    /\ result = <<>>
    /\ ReverseIdle
    /\ OutputIdle
    /\ ForwardIdle
    /\ ReportIdle
    /\ SessionIdle

\* schemas = self.parse_dynamo_csv(file_content)
ForwardParseFile ==
    /\ pc = "parsing"
    /\ pc' = "called"
    /\ schemas' = parse_dynamo_csv(call.file_content)
    /\ file_rows' = call.file_content
    /\ n_read' = Len(call.file_content)
    /\ UNCHANGED <<config, stats, call, result, reverseVars, rows, header_row,
                   source_rows, abb_tags, reportVars>>
    /\ UNCHANGED sessionVars

NextForwardFile ==
    \/ ForwardParseFile
    \/ ForwardTransform

SpecForwardFile == InitForwardFile /\ [][NextForwardFile]_vars

(***************************************************************************)
(* transform_reverse_abb on whole PHA-Pro exports                          *)
(***************************************************************************)
MaxAbbPhaRows == 3

\* The header rows of the exports: the header transform_forward_abb writes,
\* and a short one whose tag-name column carries surrounding blanks
AbbPhaHeaders ==
    { ABB_PHAPRO_HEADERS,
      << <<"U","n","i","t">>, <<" ","N","e","w"," ","T","a","g"," ","N","a","m","e"," ">>, <<"N","e","w"," ","A","l","a","r","m"," ","T","y","p","e">>, <<"N","e","w"," ","T","a","g"," ","D","e","s","c","r","i","p","t","i","o","n">>,
         <<"N","e","w"," ","L","i","m","i","t">>, <<"R","a","t","i","o","n","a","l","i","z","a","t","i","o","n"," ","(","A","l","a","r","m",")"," ","C","o","m","m","e","n","t">> >> }

\* The fields of the data rows of the exports
AbbPhaRowChoices ==
    { [tag |-> <<"T","I","-","1","0","0">>, desc |-> <<"T","e","m","p">>, type |-> <<"(","P","V",")"," ","H","i","g","h">>, limit |-> <<"8","5",".","5">>,
       comment |-> <<"c","h","e","c","k">>],
      [tag |-> <<>>, desc |-> <<>>, type |-> <<"(","P","V",")"," ","L","o","w">>, limit |-> <<>>, comment |-> <<>>],
      [tag |-> <<" ","P","I","-","2","0","0"," ">>, desc |-> <<"P","r","e","s","s">>, type |-> <<>>, limit |-> <<>>,
       comment |-> <<>>],
      [tag |-> <<"P","I","-","2","0","0">>, desc |-> <<>>, type |-> <<"(","P","V",")"," ","H","i","g","h"," ","H","i","g","h">>, limit |-> <<"1","2">>,
       comment |-> <<>>],
      [tag |-> <<>>, desc |-> <<"o","r","p","h","a","n">>, type |-> <<" ">>, limit |-> <<"7">>, comment |-> <<>>],
      [tag |-> <<>>, desc |-> <<>>, type |-> <<>>, limit |-> <<>>, comment |-> <<>>] }

\* A data row laid out under a header row
MkAbbPhaRow(hdrs, f) ==
    [i \in 1..Len(hdrs) |->
        LET h == strip(hdrs[i])
        IN  IF h \in { <<"N","e","w"," ","T","a","g"," ","N","a","m","e">>, <<"S","t","a","r","t","i","n","g"," ","T","a","g"," ","N","a","m","e">> } THEN f.tag
            ELSE IF h \in { <<"N","e","w"," ","T","a","g"," ","D","e","s","c","r","i","p","t","i","o","n">>, <<"O","l","d"," ","T","a","g"," ","D","e","s","c","r","i","p","t","i","o","n">> } THEN f.desc
            ELSE IF h \in { <<"N","e","w"," ","A","l","a","r","m"," ","T","y","p","e">>, <<"S","t","a","r","t","i","n","g"," ","A","l","a","r","m"," ","T","y","p","e">> } THEN f.type
            ELSE IF h \in { <<"N","e","w"," ","L","i","m","i","t">>, <<"O","l","d"," ","L","i","m","i","t">> } THEN f.limit
            ELSE IF h = <<"R","a","t","i","o","n","a","l","i","z","a","t","i","o","n"," ","(","A","l","a","r","m",")"," ","C","o","m","m","e","n","t">> THEN f.comment
            ELSE <<>>]

\* The exports of up to MaxAbbPhaRows data rows
AbbPhaFiles ==
    UNION { [1..n -> AbbPhaRowChoices] : n \in 0..MaxAbbPhaRows }

\* transform_reverse_abb(file_content): the header row and the data rows
ReverseAbbCalls ==
    { [fn |-> "transform_reverse_abb", headers |-> h,
       data |-> [i \in 1..Len(fs) |-> MkAbbPhaRow(h, fs[i])]] :
         h \in AbbPhaHeaders, fs \in AbbPhaFiles }

InitReverseAbb ==
    /\ pc = "called"
    /\ config = CLIENT_CONFIGS.rt_bessemer
    /\ call \in ReverseAbbCalls
    /\ stats = InitialStats
    /\ result = <<>>
    /\ ReverseIdle
    /\ OutputIdle
    /\ ForwardIdle
    /\ ReportIdle
    /\ SessionIdle

\* The whole of transform_reverse_abb
ReverseAbbTransform ==
    /\ pc = "called"
    /\ call.fn = "transform_reverse_abb"
    /\ LET out == transform_reverse_abb(call.headers, call.data)
       IN  /\ headers' = call.headers
           /\ rows_list' = call.data
           /\ n_pha' = Len(call.data)
           /\ last_tag_name' = out.last_tag_name
           /\ seen_tags' = out.seen_tags
           /\ stats' = out.stats
           /\ rows' = out.rows
           /\ header_row' = ABB_RETURN_HEADERS
           /\ result' = [header |-> ABB_RETURN_HEADERS, rows |-> out.rows, stats |-> out.stats]
    /\ pc' = "returned"
    /\ UNCHANGED <<config, call, pha_changes, last_tag_source, seen_keys, source_rows,
                   n_read, forwardVars, original_rows, change_records>>
    /\ stats_obj' = new_dict(stats_obj)
    /\ UNCHANGED returned

NextReverseAbb == ReverseAbbTransform

SpecReverseAbb == InitReverseAbb /\ [][NextReverseAbb]_vars

(***************************************************************************)
(* Several calls on one transformer                                        *)
(***************************************************************************)
\* The dicts self.stats is given after the one of __init__
MaxCalls == 3

\* The calls of a session: transform_forward on whole exports,
\* transform_forward_abb on a workbook of eight columns or unreadable bytes,
\* transform_reverse_abb on exports of at most one data row, transform_reverse
SessionCalls ==
    { [fn |-> "transform_forward", selected_units |-> <<>>, unit_method |-> <<>>,
       selected_modes |-> [given |-> FALSE, modes |-> <<>>], file_content |-> f] :
         f \in ForwardFiles }
    \cup [fn : {"transform_forward_abb"}, readable : BOOLEAN,
          columns : {<< <<"T","y","p","e">>, <<"O","b","j","e","c","t"," ","N","a","m","e">>, <<"D","e","s","c","r","i","p","t","i","o","n">>, <<"A","E","C","o","n","f","H">>, <<"A","E","L","e","v","e","l","H">>,
                        <<"A","E","S","e","v","H">>, <<"A","E","C","o","n","f","H","H">>, <<"A","E","L","e","v","e","l","H","H">> >>}]
    \cup { [fn |-> "transform_reverse_abb", headers |-> ABB_PHAPRO_HEADERS,
            data |-> [i \in 1..Len(fs) |-> MkAbbPhaRow(ABB_PHAPRO_HEADERS, fs[i])]] :
              fs \in UNION { [1..n -> AbbPhaRowChoices] : n \in 0..1 } }
    \cup [fn : {"transform_reverse"}, source_data : {"None", "rows"},
          selected_modes : {[given |-> TRUE, modes |-> << <<"N","o","r","m","a","l">>, <<"b","a","s","e">> >>]}]

\* AlarmTransformer(client_id) before its first call
InitSession ==
    /\ pc = "constructed"
    /\ config \in {CLIENT_CONFIGS.flng, CLIENT_CONFIGS.rt_bessemer}
    /\ stats = InitialStats
    /\ call = <<>>
    /\ result = <<>>
    /\ ReverseIdle
    /\ OutputIdle
    /\ ForwardIdle
    /\ ReportIdle
    /\ SessionIdle

\* The caller keeps what the last call returned and calls a transform of the
\* same transformer: the locals of the call start anew, self.stats and
\* self.config are those the last call left
SessionNewCall ==
    /\ pc \in {"constructed", "returned", "raised"}
    /\ stats_obj < MaxCalls
    /\ returned' = IF pc = "returned"
                   THEN Append(returned, [obj |-> stats_obj, stats |-> result.stats])
                   ELSE returned
    /\ \E c \in SessionCalls :
         /\ c.fn = "transform_forward_abb" => config = CLIENT_CONFIGS.rt_bessemer
         /\ c.fn \in {"transform_forward", "transform_reverse"} => config = CLIENT_CONFIGS.flng
         /\ call' = c
         /\ pc' = IF c.fn = "transform_forward" THEN "parsing" ELSE "called"
    /\ result' = <<>>
    /\ headers' = <<>>
    /\ pha_changes' = <<>>
    /\ last_tag_name' = <<>>
    /\ last_tag_source' = <<>>
    /\ seen_keys' = {}
    /\ seen_tags' = {}
    /\ n_pha' = 0
    /\ rows' = <<>>
    /\ header_row' = <<>>
    /\ source_rows' = <<>>
    /\ n_read' = 0
    /\ schemas' = EmptySchemas
    /\ file_rows' = <<>>
    /\ abb_tags' = <<>>
    /\ rows_list' = <<>>
    /\ original_rows' = <<>>
    /\ change_records' = <<>>
    /\ UNCHANGED <<config, stats, stats_obj>>

\* The steps of transform_reverse and of parse_abb_excel on the files of a
\* session: the full FLNG header or an empty one, at most one PHA-Pro row of
\* tag T1, whole parameter rows of tag T1, at most one row of the workbook
SessionReadHeader == ReverseReadHeader /\ headers' \in {FlngExport, <<>>}

SessionReadPhaRow ==
    /\ ReverseReadPhaRow
    /\ n_pha' <= 1
    /\ \E f \in PhaRowChoices :
         f.tag = <<"T","1">> /\ rows_list'[Len(rows_list')] = MkPhaRow(headers, f)

SessionMergeRow ==
    /\ ReverseMergeRow
    /\ LET original_row == original_rows'[Len(original_rows')]
       IN  /\ Len(original_row) >= 42
           /\ Cell(original_row, 0) = <<"_","V","a","r","i","a","b","l","e">>
           /\ Cell(original_row, 1) = <<"T","1">>
           /\ Cell(original_row, 2) = <<"_","P","a","r","a","m","e","t","e","r">>

SessionAbbParseRow == AbbParseRow /\ n_read' <= 1

NextSession ==
    \/ SessionNewCall
    \/ ForwardParseFile
    \/ ForwardTransform
    \/ AbbReadFails
    \/ SessionAbbParseRow
    \/ AbbTransform
    \/ ReverseAbbTransform
    \/ SessionReadHeader
    \/ SessionReadPhaRow
    \/ ReverseCheckSource
    \/ SessionMergeRow
    \/ ReverseReturn

SpecSession == InitSession /\ [][NextSession]_vars

(***************************************************************************)
(* Properties of transform_reverse                                         *)
(***************************************************************************)
\* C1: while the original rows are merged and when transform_reverse returns,
\* stats.updated + stats.not_found equals the number of rows emitted, which
\* equals stats.alarms; each emitted row is in exactly one bucket, and a row
\* dropped by a filter is in neither.
C1_BucketsCountEmittedRows ==
    (call.fn = "transform_reverse" /\ pc \in {"original_rows", "returned"}) =>
        /\ stats.updated + stats.not_found = Len(rows)
        /\ stats.alarms = Len(rows)
        /\ stats.updated = Cardinality({i \in 1..Len(rows) : source_rows[i].matched})
        /\ stats.not_found = Cardinality({i \in 1..Len(rows) : ~source_rows[i].matched})
        /\ pc = "returned" => result.stats = stats /\ Len(result.rows) = Len(rows)

\* A call that returned after reading two original rows, one dropped and one
\* emitted as updated
C1_Witness ==
    /\ call.fn = "transform_reverse"
    /\ pc = "returned"
    /\ n_read = 2
    /\ Len(rows) = 1
    /\ stats.updated = 1
    /\ stats.skipped_modes = 1

\* C2: an emitted row whose key is not in the change-set equals its original
\* row in every cell, except cell 0 (the marker '_Variable), the empty cells
\* appended up to 42 fields, and commas removed from cells 31, 34, 37; the
\* rows of this kind are the ones counted as not_found.
C2_UnmatchedRowPassesThrough ==
    (call.fn = "transform_reverse" /\ pc \in {"original_rows", "returned"}) =>
        /\ \A i \in 1..Len(rows) :
             ~source_rows[i].matched =>
                LET o == source_rows[i].row
                    r == rows[i]
                IN  /\ Len(r) = IF Len(o) < 42 THEN 42 ELSE Len(o)
                    /\ \A k \in 0..(Len(r) - 1) :
                         IF k = 0 THEN Cell(r, k) = <<"'","_","V","a","r","i","a","b","l","e">>
                         ELSE IF k >= Len(o) THEN Cell(r, k) = <<>>
                         ELSE IF k \in {31, 34, 37}
                              THEN \/ Cell(r, k) = Cell(o, k)
                                   \/ Cell(r, k) = SelectSeq(Cell(o, k), LAMBDA c : c # ",")
                              ELSE Cell(r, k) = Cell(o, k)
        /\ stats.not_found = Cardinality({i \in 1..Len(rows) : ~source_rows[i].matched})

\* An unmatched row of 6 cells was emitted, padded, and counted
C2_Witness ==
    /\ call.fn = "transform_reverse"
    /\ pc = "returned"
    /\ stats.not_found >= 1
    /\ \E i \in 1..Len(rows) :
         /\ ~source_rows[i].matched
         /\ Len(source_rows[i].row) = 6
         /\ Len(rows[i]) = 42

\* C3: in an emitted row whose key is in the change-set, only the cells 7, 8,
\* 10, 11, 12, 13, 16, 17, 18, 19, 25, the marker cell 0 and the cleaned cells
\* 31, 34, 37 can differ from the original row; every other cell is the
\* original's (an appended cell is empty).
C3_MatchedRowKeepsOtherCells ==
    (call.fn = "transform_reverse" /\ pc \in {"original_rows", "returned"}) =>
        \A i \in 1..Len(rows) :
            source_rows[i].matched =>
                LET o == source_rows[i].row
                    r == rows[i]
                IN  /\ Len(r) = IF Len(o) < 42 THEN 42 ELSE Len(o)
                    /\ \A k \in 0..(Len(r) - 1) :
                         k \notin {0, 7, 8, 10, 11, 12, 13, 16, 17, 18, 19, 25, 31, 34, 37} =>
                            Cell(r, k) = IF k < Len(o) THEN Cell(o, k) ELSE <<>>

\* A matched row was emitted with a rewritten value cell and priority cell
C3_Witness ==
    /\ call.fn = "transform_reverse"
    /\ pc = "returned"
    /\ \E i \in 1..Len(rows) :
         /\ source_rows[i].matched
         /\ Len(source_rows[i].row) >= 42
         /\ Cell(rows[i], 7) # Cell(source_rows[i].row, 7)
         /\ Cell(rows[i], 10) # Cell(source_rows[i].row, 10)
         /\ Cell(rows[i], 16) # Cell(source_rows[i].row, 16)

\* C5: when the header holds no accepted name of some required column, the call
\* raises the missing-columns error with no data row read, no row emitted and
\* the stats untouched; the error lists each required column that has no
\* accepted name in the header, once, and no other column; with every required
\* column present the error is not raised.
C5_MissingColumnsReported ==
    (call.fn = "transform_reverse" /\ pc # "called") =>
        LET present(rc) == \E j \in 1..Len(rc[2]) : \E h \in 1..Len(headers) :
                               strip(headers[h]) = rc[2][j]
            lacking == {i \in 1..Len(required_columns) : ~present(required_columns[i])}
        IN  IF lacking # {}
            THEN /\ pc = "raised"
                 /\ result.error = "MISSING_COLUMNS"
                 /\ n_pha = 0 /\ DOMAIN pha_changes = {}
                 /\ n_read = 0 /\ rows = <<>> /\ header_row = <<>>
                 /\ stats = InitialStats
                 /\ Len(result.missing) = Cardinality(lacking)
                 /\ \A i \in lacking : InList(required_columns[i][1], result.missing)
            ELSE pc = "raised" => result.error # "MISSING_COLUMNS"

\* The error was raised for a header that lacks three required columns
C5_Witness ==
    /\ call.fn = "transform_reverse"
    /\ pc = "raised"
    /\ result.error = "MISSING_COLUMNS"
    /\ Len(result.missing) = 3
    /\ headers # <<>>

\* C6: with every required column in the header and no original dataset
\* (source_data None, empty, or without 'rows'), the call never reaches the
\* merge and never returns: it reads the PHA-Pro rows and raises the
\* original-file-required error, with no row emitted and the stats untouched.
C6_OriginalFileRequired ==
    (/\ call.fn = "transform_reverse"
     /\ call.source_data # "rows"
     /\ pc # "called"
     /\ ~(pc = "raised" /\ result.error = "MISSING_COLUMNS")) =>
        /\ pc \in {"pha_rows", "raised"}
        /\ pc = "raised" => result.error = "ORIGINAL_FILE_REQUIRED"
        /\ rows = <<>> /\ header_row = <<>> /\ n_read = 0
        /\ stats = InitialStats

\* The error was raised after two PHA-Pro rows filled the change-set, for a
\* source_data dict without 'rows'
C6_Witness ==
    /\ call.fn = "transform_reverse"
    /\ call.source_data = "no_rows"
    /\ pc = "raised"
    /\ result.error = "ORIGINAL_FILE_REQUIRED"
    /\ n_pha = 2
    /\ Cardinality(DOMAIN pha_changes) = 2

\* C7: every row emitted by transform_reverse has exactly 42 fields and the
\* marker '_Variable in its first cell, whatever the length of the original
\* row; no header row is written.
C7_EveryRowHas42Fields ==
    (call.fn = "transform_reverse") =>
        /\ header_row = <<>>
        /\ \A i \in 1..Len(rows) :
             /\ Len(rows[i]) = 42
             /\ Cell(rows[i], 0) = <<"'","_","V","a","r","i","a","b","l","e">>

(***************************************************************************)
(* Properties of map_priority                                              *)
(***************************************************************************)
\* C9 as stated: the result is given by the table urgent, critical, high,
\* medium, low, journal, none, with every other name mapped to (N, None), and
\* the code is one of U, C, H, M, L, J, N apart from Jo.
C9_TableWithoutNoaction ==
    (call.fn = "map_priority" /\ pc = "returned") =>
        LET p == lower(strip(call.priority))
            claimed == IF p = <<"u","r","g","e","n","t">> THEN << <<"U">>, <<"A","l","a","r","m">> >>
                       ELSE IF p = <<"c","r","i","t","i","c","a","l">> THEN << <<"C">>, <<"A","l","a","r","m">> >>
                       ELSE IF p = <<"h","i","g","h">> THEN << <<"H">>, <<"A","l","a","r","m">> >>
                       ELSE IF p = <<"m","e","d","i","u","m">> THEN << <<"M">>, <<"A","l","a","r","m">> >>
                       ELSE IF p = <<"l","o","w">> THEN << <<"L">>, <<"A","l","a","r","m">> >>
                       ELSE IF p = <<"j","o","u","r","n","a","l">> THEN << <<"J">>, <<"E","v","e","n","t">> >>
                       ELSE << <<"N">>, <<"N","o","n","e">> >>
        IN  /\ result[2] = claimed[2]
            /\ result[1] = claimed[1] \/ (claimed[1] = <<"J">> /\ result[1] = <<"J","o">>)
            /\ result[1] \in { <<"U">>, <<"C">>, <<"H">>, <<"M">>, <<"L">>, <<"J">>, <<"N">>, <<"J","o">> }

\* C9 amended: the table also maps noaction to (NA, None); every name outside
\* the eight entries maps to (N, None), and the code is one of U, C, H, M, L,
\* J, N, NA apart from Jo.
C9_TableWithNoaction ==
    (call.fn = "map_priority" /\ pc = "returned") =>
        LET p == lower(strip(call.priority))
            claimed == IF p = <<"u","r","g","e","n","t">> THEN << <<"U">>, <<"A","l","a","r","m">> >>
                       ELSE IF p = <<"c","r","i","t","i","c","a","l">> THEN << <<"C">>, <<"A","l","a","r","m">> >>
                       ELSE IF p = <<"h","i","g","h">> THEN << <<"H">>, <<"A","l","a","r","m">> >>
                       ELSE IF p = <<"m","e","d","i","u","m">> THEN << <<"M">>, <<"A","l","a","r","m">> >>
                       ELSE IF p = <<"l","o","w">> THEN << <<"L">>, <<"A","l","a","r","m">> >>
                       ELSE IF p = <<"j","o","u","r","n","a","l">> THEN << <<"J">>, <<"E","v","e","n","t">> >>
                       ELSE IF p = <<"n","o","a","c","t","i","o","n">> THEN << <<"N","A">>, <<"N","o","n","e">> >>
                       ELSE << <<"N">>, <<"N","o","n","e">> >>
        IN  /\ result[2] = claimed[2]
            /\ result[1] = claimed[1] \/ (claimed[1] = <<"J">> /\ result[1] = <<"J","o">>)
            /\ result[1] \in { <<"U">>, <<"C">>, <<"H">>, <<"M">>, <<"L">>, <<"J">>, <<"N">>, <<"N","A">>, <<"J","o">> }

\* A name in capitals was mapped through the eighth entry of the table
C9_Witness ==
    /\ call.fn = "map_priority"
    /\ pc = "returned"
    /\ call.priority = <<"N","O","A","C","T","I","O","N">>
    /\ result = << <<"N","A">>, <<"N","o","n","e">> >>

\* C10: the code is Jo exactly when the name maps to journal and the disabled
\* flag, upper-cased, is FALSE; the status of a journal priority is Event with
\* either code; for every other priority the result is the one of an empty flag.
C10_JoOnlyForEnabledJournal ==
    (call.fn = "map_priority" /\ pc = "returned") =>
        LET journal == lower(strip(call.priority)) = <<"j","o","u","r","n","a","l">>
            flag_false == upper(call.disabled_value) = <<"F","A","L","S","E">>
        IN  /\ (result[1] = <<"J","o">>) <=> (journal /\ flag_false)
            /\ journal => (result[2] = <<"E","v","e","n","t">> /\ result[1] \in { <<"J">>, <<"J","o">> })
            /\ ~journal => result = map_priority(call.priority, <<>>)

\* map_priority("Journal", "False") returned (Jo, Event)
C10_Witness ==
    /\ call.fn = "map_priority"
    /\ pc = "returned"
    /\ call.priority = <<"J","o","u","r","n","a","l">>
    /\ call.disabled_value = <<"F","a","l","s","e">>
    /\ result = << <<"J","o">>, <<"E","v","e","n","t">> >>

(***************************************************************************)
(* Properties of transform_forward and transform_forward_abb               *)
(***************************************************************************)
\* A row of the file that parse_dynamo_csv reads as a row of the schema
IsRowOf(row, schema) ==
    /\ Len(row) >= 3
    /\ strip(Cell(row, 0)) = <<"_","V","a","r","i","a","b","l","e">>
    /\ strip(Cell(row, 2)) = schema

\* The tag a row of the file belongs to
RowTag(row) == strip(Cell(row, 1))

\* Whether the mode of a _Parameter row is in the selected set: equal to a
\* selected mode in any letter case, or blank when "(empty)" is selected
RowModeInSet(row, modes) ==
    LET mode == CellOr(row, 3, <<"B","a","s","e">>)
    IN  \E i \in 1..Len(modes) :
           IF modes[i] = <<"(","e","m","p","t","y",")">> THEN strip(mode) = <<>>
           ELSE upper(mode) = upper(modes[i])

\* The _Parameter rows of the file whose mode is outside the selected set
OutOfSetRows ==
    {i \in 1..Len(file_rows) :
        /\ IsRowOf(file_rows[i], <<"_","P","a","r","a","m","e","t","e","r">>)
        /\ ~RowModeInSet(file_rows[i], call.selected_modes.modes)}

\* The tags of the file that have a _DCSVariable row
VariableTags ==
    {RowTag(file_rows[i]) : i \in {j \in 1..Len(file_rows) :
                                      IsRowOf(file_rows[j], <<"_","D","C","S","V","a","r","i","a","b","l","e">>)}}

\* The _Parameter rows of the file that can give a data row: tag with a
\* _DCSVariable row, mode in the selected set, alarm type not a placeholder
EmittableRows ==
    {i \in 1..Len(file_rows) :
        /\ IsRowOf(file_rows[i], <<"_","P","a","r","a","m","e","t","e","r">>)
        /\ RowTag(file_rows[i]) \in VariableTags
        /\ RowModeInSet(file_rows[i], call.selected_modes.modes)
        /\ ~InList(strip(CellOr(file_rows[i], 5, <<>>)), << <<"~">>, <<"-">>, <<>> >>)}

\* The tags of the file all of whose _Parameter rows are outside the set
TagsOnlyOutOfSet ==
    {t \in {RowTag(file_rows[i]) : i \in OutOfSetRows} :
        \A i \in 1..Len(file_rows) :
            IsRowOf(file_rows[i], <<"_","P","a","r","a","m","e","t","e","r">>) /\ RowTag(file_rows[i]) = t
                => i \in OutOfSetRows}

ForwardReturnedWithModes ==
    /\ pc = "returned"
    /\ call.fn = "transform_forward"
    /\ call.selected_modes.given

\* C4 as stated: with a selected mode set, stats.skipped_modes is the number
\* of _Parameter rows of the file whose mode is outside the set, counted over
\* all tags of the file, those without a _DCSVariable row included.
C4_SkippedCountsEveryTag ==
    ForwardReturnedWithModes => stats.skipped_modes = Cardinality(OutOfSetRows)

\* C4, amended: with a selected mode set, no data row comes from a
\* _Parameter entry whose mode is outside the set (a tag with only such
\* entries has no row, and there are at most as many rows as entries in the
\* set, exactly as many without a unit filter), and stats.skipped_modes is
\* the number of _Parameter rows outside the set that belong to a tag with a
\* _DCSVariable row, tags dropped by the unit filter included.
C4_SkippedCountsVariableTags ==
    ForwardReturnedWithModes =>
        /\ stats.skipped_modes =
              Cardinality({i \in OutOfSetRows : RowTag(file_rows[i]) \in VariableTags})
        /\ \A t \in TagsOnlyOutOfSet :
              \A k \in 1..Len(rows) : Cell(rows[k], 1) # t
        /\ Len(rows) <= Cardinality(EmittableRows)
        /\ call.selected_units = <<>> => Len(rows) = Cardinality(EmittableRows)

\* A mode set is selected, an entry outside it was counted and an entry in
\* the set gave a row
C4_Witness ==
    /\ ForwardReturnedWithModes
    /\ stats.skipped_modes >= 1
    /\ Len(rows) >= 1

SeverityLetters == { <<"A">>, <<"B">>, <<"C">>, <<"D">>, <<"E">> }

\* The words of the severity vocabulary
SeverityWords ==
    { <<"C","A","T","A","S","T","R","O","P","H","I","C">>, <<"M","A","J","O","R">>, <<"M","O","D","E","R","A","T","E">>, <<"M","I","N","O","R">>, <<"I","N","S","I","G","N","I","F","I","C","A","N","T">> }

\* Whether a consequence text, trimmed and in capitals, is a letter code, or
\* holds or is held by a word of the vocabulary
MatchesSeverityVocabulary(x) ==
    LET c == upper(strip(x))
    IN  \/ c \in SeverityLetters
        \/ \E w \in SeverityWords : contains(w, c) \/ contains(c, w)

\* C11: map_severity is the identity on the letters A to E, answers "(N)" for
\* the placeholders "", None, "~" and "-", answers one of A to E or "(N)" for
\* every input, and answers "(N)" when the input matches no vocabulary word.
C11_SeverityLettersAndPlaceholders ==
    (call.fn = "map_severity" /\ pc = "returned") =>
        /\ call.consequence \in SeverityLetters => result = call.consequence
        /\ call.consequence \in { <<>>, <<"~">>, <<"-">> } => result = <<"(","N",")">>
        /\ result \in SeverityLetters \cup { <<"(","N",")">> }
        /\ ~MatchesSeverityVocabulary(call.consequence) => result = <<"(","N",")">>

\* The letter B, which no word of the vocabulary holds, came back as itself
C11_Witness ==
    /\ call.fn = "map_severity"
    /\ pc = "returned"
    /\ call.consequence = <<"B">>
    /\ result = <<"B">>

(***************************************************************************)
(* Properties of extract_unit                                              *)
(***************************************************************************)
\* The method extract_unit works with, in capitals
MethodInUse == upper(IF call.method # <<>> THEN call.method ELSE config.unit_method)

\* The digits the tag-prefix method is to answer: the run of digits that
\* starts at the first digit of the tag name, cut at unit_digits characters
LeadingRun(tag_name, unit_digits) ==
    LET digit_at == {i \in 1..Len(tag_name) : IsDigit(tag_name[i])}
        first == SetMin(digit_at)
        run == {n \in 1..(Len(tag_name) - first + 1) :
                   \A k \in first..(first + n - 1) : IsDigit(tag_name[k])}
        n == IF SetMax(run) < unit_digits THEN SetMax(run) ELSE unit_digits
    IN  IF digit_at = {} THEN <<>> ELSE SubSeq(tag_name, first, first + n - 1)

\* C12: with the tag-prefix method extract_unit answers the first run of
\* consecutive digits of the tag name, cut at the configured digit count, and
\* "00" when the tag name has no digit, whatever the asset path.
C12_TagPrefixUnit ==
    (call.fn = "extract_unit" /\ pc = "returned" /\ MethodInUse = <<"T","A","G","_","P","R","E","F","I","X">>) =>
        result = (IF LeadingRun(call.tag_name, config.unit_digits) = <<>> THEN <<"0","0">>
                  ELSE LeadingRun(call.tag_name, config.unit_digits))

\* A tag name with more digits than the digit count, and an asset path of
\* another unit
C12_Witness ==
    /\ call.fn = "extract_unit"
    /\ pc = "returned"
    /\ call.method = <<"t","a","g","_","p","r","e","f","i","x">>
    /\ call.tag_name = <<"1","2","3","4","5","6">>
    /\ call.asset_path = <<"/","U","1","7","/","1","7","_","F","L","A","R","E","/","1","7","H","-","2">>
    /\ result = <<"1","2">>

\* The position of the "/" that closes a segment "/" word digits "/" starting
\* at position i of the path, the word in any letter case; 0: no such segment
SegmentClose(path, i, word) ==
    LET from == i + Len(word) + 1
        closes == {j \in (from + 1)..Len(path) :
                      /\ path[j] = "/"
                      /\ \A k \in from..(j - 1) : IsDigit(path[k])}
    IN  IF /\ i + Len(word) <= Len(path)
           /\ path[i] = "/"
           /\ upper(SubSeq(path, i + 1, i + Len(word))) = word
           /\ closes # {}
        THEN SetMin(closes) ELSE 0

\* What follows the first segment "/" word digits "/" of the path, for a word
\* of the set; <<>> when the path has no such segment
AfterUnitSegment(path, words) ==
    LET starts == {i \in 1..Len(path) : \E w \in words : SegmentClose(path, i, w) # 0}
        first == SetMin(starts)
        close == SetMin({SegmentClose(path, first, w) : w \in words} \ {0})
    IN  IF starts = {} THEN <<>> ELSE SubSeq(path, close + 1, Len(path))

\* The non-empty pieces between the "/" of a text, as <<first, last>> positions
Pieces(text) ==
    {p \in (1..Len(text)) \X (1..Len(text)) :
        /\ p[1] <= p[2]
        /\ \A k \in p[1]..p[2] : text[k] # "/"
        /\ p[1] = 1 \/ text[p[1] - 1] = "/"
        /\ p[2] = Len(text) \/ text[p[2] + 1] = "/"}

\* The parent (first piece) or the child (last piece) of what follows the
\* unit segment, "00" when there is none
UnitOfPath(path, words, child) ==
    LET rest == AfterUnitSegment(path, words)
        pieces == Pieces(rest)
        pick == CHOOSE p \in pieces :
                    \A q \in pieces : IF child THEN q[1] <= p[1] ELSE p[1] <= q[1]
    IN  IF pieces = {} THEN <<"0","0">> ELSE SubSeq(rest, pick[1], pick[2])

UnitCallReturned ==
    /\ call.fn = "extract_unit"
    /\ pc = "returned"
    /\ MethodInUse \in { <<"A","S","S","E","T","_","P","A","R","E","N","T">>, <<"A","S","S","E","T","_","C","H","I","L","D">> }

\* C13 as stated: with the asset-parent or asset-child method extract_unit
\* finds the first segment /U<digits>/ or /Unit<digits>/ of the asset path, in
\* any letter case, and answers the first (parent) or last (child) piece of
\* what follows, "00" when there is no such segment or no piece.
C13_UnitAfterUOrUnitSegment ==
    UnitCallReturned =>
        result = UnitOfPath(call.asset_path, { <<"U">>, <<"U","N","I","T">> },
                            MethodInUse = <<"A","S","S","E","T","_","C","H","I","L","D">>)

\* C13, amended: the segment is /U<digits>/ only, in any letter case; a
\* segment /Unit<digits>/ is not one.
C13_UnitAfterUSegment ==
    UnitCallReturned =>
        result = UnitOfPath(call.asset_path, { <<"U">> }, MethodInUse = <<"A","S","S","E","T","_","C","H","I","L","D">>)

\* The asset-child method answered the last piece of a path with two pieces
\* after a /U<digits>/ segment that is not at the start of the path
C13_Witness ==
    /\ UnitCallReturned
    /\ call.method = <<"A","s","s","e","t","_","C","h","i","l","d">>
    /\ call.asset_path = <<"/","A","s","s","e","t","s","/","L","Q","F","/","U","1","7","/","1","7","_","F","L","A","R","E","/","1","7","H","-","2">>
    /\ result = <<"1","7","H","-","2">>

(***************************************************************************)
(* Properties of the rows of transform_forward                             *)
(***************************************************************************)
\* The 0-based position of a column of the header row; -1: no such column
ColumnOf(name) ==
    LET at == {i \in 1..Len(header_row) : header_row[i] = name}
    IN  IF at = {} THEN -1 ELSE SetMin(at) - 1

\* The alarm type column of the variant: "Alarm Type" or "New Alarm Type"
AlarmTypeColumn ==
    IF ColumnOf(<<"A","l","a","r","m"," ","T","y","p","e">>) >= 0 THEN ColumnOf(<<"A","l","a","r","m"," ","T","y","p","e">>)
    ELSE ColumnOf(<<"N","e","w"," ","A","l","a","r","m"," ","T","y","p","e">>)

\* Whether the text, in lower case, holds a word of the discrete vocabulary
HoldsDiscreteWord(text) ==
    \E i \in 1..Len(DISCRETE_ALARM_TYPES) : contains(DISCRETE_ALARM_TYPES[i], lower(text))

ForwardReturned == pc = "returned" /\ call.fn = "transform_forward"

\* C14: every row of transform_forward whose alarm type is discrete has blank
\* Old Limit and New Limit cells, whatever the raw value.
C14_DiscreteRowsHaveNoLimit ==
    ForwardReturned =>
        \A k \in 1..Len(rows) :
            HoldsDiscreteWord(Cell(rows[k], AlarmTypeColumn)) =>
                /\ Cell(rows[k], ColumnOf(<<"O","l","d"," ","L","i","m","i","t">>)) = <<>>
                /\ Cell(rows[k], ColumnOf(<<"N","e","w"," ","L","i","m","i","t">>)) = <<>>

\* A "Bad PV" entry with the raw value 5 gave a row, next to an analog row
\* that carries its limit
C14_Witness ==
    /\ ForwardReturned
    /\ \E k \in 1..Len(rows) : Cell(rows[k], AlarmTypeColumn) = <<"B","a","d"," ","P","V">>
    /\ \E i \in 1..Len(file_rows) :
          /\ IsRowOf(file_rows[i], <<"_","P","a","r","a","m","e","t","e","r">>)
          /\ CellOr(file_rows[i], 5, <<>>) = <<"B","a","d"," ","P","V">>
          /\ CellOr(file_rows[i], 7, <<>>) = <<"5">>
    /\ \E k \in 1..Len(rows) : Cell(rows[k], ColumnOf(<<"N","e","w"," ","L","i","m","i","t">>)) = <<"1","5","0","0">>

(***************************************************************************)
(* Properties of derive_tag_source                                         *)
(***************************************************************************)
\* Whether a rule matches as the rule kinds are described: exact, prefix and
\* set-membership rules compare without regard to letter case, contains rules
\* compare the text as written, each against the field the rule declares
RuleApplies(rule, tag_name, point_type) ==
    LET value == IF rule.field = "point_type" THEN point_type ELSE tag_name
    IN  IF rule.kind = "exact" THEN upper(value) = upper(rule.values[1])
        ELSE IF rule.kind = "prefix" THEN startswith(upper(value), upper(rule.values[1]))
        ELSE IF rule.kind = "contains" THEN contains(rule.values[1], value)
        ELSE \E i \in 1..Len(rule.values) : upper(value) = upper(rule.values[i])

\* C15: derive_tag_source answers the source and the enforcement of the first
\* rule of the profile, in declared order, that matches the field it declares
\* (exact, prefix and set-membership without regard to case, contains as
\* written), and (default_source, "M") when no rule matches.
C15_FirstMatchingRule ==
    (call.fn = "derive_tag_source" /\ pc = "returned") =>
        LET applies == {i \in 1..Len(tag_source_rules) :
                           RuleApplies(tag_source_rules[i], call.tag_name, call.point_type)}
        IN  result = (IF applies = {} THEN <<config.default_source, <<"M">>>>
                      ELSE <<tag_source_rules[SetMin(applies)].source,
                             tag_source_rules[SetMin(applies)].enforcement>>)

\* C15 holds of the three built-in profiles, whose exact, prefix and
\* set-membership rules all read the point type
C15_BuiltInProfiles ==
    config.client # "external" => C15_FirstMatchingRule

(***************************************************************************)
(* Properties of generate_change_report against transform_reverse          *)
(***************************************************************************)
\* The (tag, alarm type) pair of the i-th row transform_reverse emitted
EmittedKey(i) == << Cell(source_rows[i].row, 1), Cell(source_rows[i].row, 5) >>

\* Cell k of the original row the i-th emitted row was built from ("" when the
\* original row is shorter)
OriginalCell(i, k) == CellOr(source_rows[i].row, k, <<>>)

\* Whether the i-th emitted row differs from its original row in a tracked cell
DiffersInTrackedCell(i) ==
    \E n \in 1..9 : Cell(rows[i], REPORT_CELLS[n]) # OriginalCell(i, REPORT_CELLS[n])

\* The records of the report for one pair
RecordsOf(key) ==
    {j \in 1..Len(change_records) :
        << change_records[j].Tag_Name, change_records[j].Alarm_Type >> = key}

\* C16: generate_change_report emits a record for a (tag, alarm type) pair if
\* and only if the row transform_reverse emits for that pair differs from the
\* original row in one of the cells 7, 10, 12, 13, 16, 17, 18, 19, 25; the new
\* values of each record are the merged row's cells and its changed marks say
\* which of these cells differ from the original row.
C16_ReportAgreesWithMerge ==
    pc = "reported" =>
        /\ \A i \in 1..Len(rows) : (RecordsOf(EmittedKey(i)) # {}) <=> DiffersInTrackedCell(i)
        /\ \A j \in 1..Len(change_records) :
             \E i \in 1..Len(rows) :
                /\ j \in RecordsOf(EmittedKey(i))
                /\ \A n \in 1..9 :
                     /\ change_records[j].New[n] = Cell(rows[i], REPORT_CELLS[n])
                     /\ change_records[j].Changed[n] =
                            (Cell(rows[i], REPORT_CELLS[n]) # OriginalCell(i, REPORT_CELLS[n]))

(***************************************************************************)
(* Properties of the change-set transform_reverse builds                   *)
(***************************************************************************)
\* The stripped tag-name, tag-source and alarm-type cells of the i-th data row
\* of the export
TagNameCell(i) ==
    get_col_flexible(headers, rows_list[i], << <<"T","a","g"," ","N","a","m","e">>, <<"N","e","w"," ","T","a","g"," ","N","a","m","e">>, <<"S","t","a","r","t","i","n","g"," ","T","a","g"," ","N","a","m","e">> >>, <<>>)

TagSourceCell(i) == get_col_flexible(headers, rows_list[i], << <<"T","a","g"," ","S","o","u","r","c","e">> >>, <<>>)

AlarmTypeCell(i) ==
    get_col_flexible(headers, rows_list[i], << <<"A","l","a","r","m"," ","T","y","p","e">>, <<"N","e","w"," ","A","l","a","r","m"," ","T","y","p","e">>, <<"S","t","a","r","t","i","n","g"," ","A","l","a","r","m"," ","T","y","p","e">> >>, <<>>)

\* The tag-source cell of a row whose tag-name cell is filled
TagSourceCellOfTagRow(i) == IF TagNameCell(i) # <<>> THEN TagSourceCell(i) ELSE <<>>

\* The last non-blank value of a cell at or before row i ("" when there is none)
LastNonBlank(CellAt(_), i) ==
    LET filled == {j \in 1..i : CellAt(j) # <<>>}
    IN  IF filled = {} THEN <<>> ELSE CellAt(SetMax(filled))

\* The key a data row resolves to
KeyOfRow(i) == << LastNonBlank(TagNameCell, i), AlarmTypeCell(i) >>

\* The data rows that carry a decision, and for each key the last of them
DecisionRows == {i \in 1..Len(rows_list) : AlarmTypeCell(i) # <<>>}

LastRowOfKey(key) == SetMax({i \in DecisionRows : KeyOfRow(i) = key})

\* transform_reverse is in `for row in reader`: rows_list holds the rows read
\* so far, all of them once the loop is over
BuildingChangeSet == call.fn = "transform_reverse" /\ pc = "pha_rows"

\* C17 as stated: every entry is filed under the last non-blank tag-name cell at
\* or before its row, and its tag_source is the last non-blank tag-source cell
\* at or before its row, whatever the tag-name cell of the row that holds it.
C17_LastSeenTagAndSource ==
    BuildingChangeSet =>
        /\ DOMAIN pha_changes = {KeyOfRow(i) : i \in DecisionRows}
        /\ \A key \in DOMAIN pha_changes :
             pha_changes[key].tag_source = LastNonBlank(TagSourceCell, LastRowOfKey(key))

\* C17, amended: every entry is filed under the last non-blank tag-name cell at
\* or before its row, and its tag_source is the last non-blank tag-source cell
\* among the rows at or before its row whose tag-name cell is filled.
C17_LastSeenTagAndSourceOfTagRows ==
    BuildingChangeSet =>
        /\ DOMAIN pha_changes = {KeyOfRow(i) : i \in DecisionRows}
        /\ \A key \in DOMAIN pha_changes :
             pha_changes[key].tag_source = LastNonBlank(TagSourceCellOfTagRow, LastRowOfKey(key))

\* An entry built from a row with a blank tag-name cell and a filled tag-source
\* cell, filed under the tag name and the tag source of the row before it
C17_Witness ==
    /\ BuildingChangeSet
    /\ Len(rows_list) = 2
    /\ TagNameCell(1) # <<>> /\ TagSourceCell(1) # <<>>
    /\ TagNameCell(2) = <<>> /\ TagSourceCell(2) # <<>> /\ TagSourceCell(2) # TagSourceCell(1)
    /\ KeyOfRow(2) \in DOMAIN pha_changes
    /\ KeyOfRow(2)[1] = TagNameCell(1)
    /\ pha_changes[KeyOfRow(2)].tag_source = TagSourceCell(1)

\* The entry the change-set should hold for a key: the one of the last data row
\* that resolves to the key
EntryOfLastRow(key) ==
    change_entry(headers, rows_list[LastRowOfKey(key)],
                 LastNonBlank(TagSourceCellOfTagRow, LastRowOfKey(key)))

\* The stripped cell of the last row that resolves to a key, under one of the
\* names of a column
CellOfLastRow(key, names) ==
    get_col_flexible(headers, rows_list[LastRowOfKey(key)], names, <<>>)

\* C18: the change-set holds one entry per (tag name, alarm type) key that a
\* row with an alarm type resolves to and no other; the entry of a key is the
\* one of the last row that resolves to it, and this is the entry applied to
\* the original row of that key (the value and priority cells of the merged
\* row are derived from the new limit and new priority of that last row);
\* rows with a blank alarm type add and replace nothing.
C18_LastRowOfKeyWins ==
    /\ BuildingChangeSet =>
          /\ DOMAIN pha_changes = {KeyOfRow(i) : i \in DecisionRows}
          /\ \A key \in DOMAIN pha_changes : pha_changes[key] = EntryOfLastRow(key)
    /\ (call.fn = "transform_reverse" /\ pc = "returned") =>
          \A i \in 1..Len(rows) :
             source_rows[i].matched =>
                /\ Cell(rows[i], 7) =
                      value_cell(EmittedKey(i)[2], CellOfLastRow(EmittedKey(i), << <<"N","e","w"," ","L","i","m","i","t">> >>))
                /\ Cell(rows[i], 10) =
                      priority_cell(CellOfLastRow(EmittedKey(i), << <<"N","e","w"," ","P","r","i","o","r","i","t","y">>, <<"N","e","w"," ","(","B","P","C","S",")"," ","P","r","i","o","r","i","t","y">> >>))

\* Two rows of the export resolve to one key with different decisions, and the
\* original row of that key was merged
C18_Witness ==
    /\ call.fn = "transform_reverse" /\ pc = "returned"
    /\ Len(rows_list) = 2
    /\ DecisionRows = {1, 2}
    /\ KeyOfRow(1) = KeyOfRow(2)
    /\ change_entry(headers, rows_list[1], <<>>) # change_entry(headers, rows_list[2], <<>>)
    /\ \E i \in 1..Len(rows) : source_rows[i].matched /\ EmittedKey(i) = KeyOfRow(2)

(***************************************************************************)
(* Properties of the de-duplication of transform_reverse                   *)
(***************************************************************************)
\* The _Parameter rows among the original rows read so far
ParameterRows ==
    {i \in 1..Len(original_rows) :
        /\ Len(original_rows[i]) >= 6
        /\ Cell(original_rows[i], 0) = <<"_","V","a","r","i","a","b","l","e">>
        /\ Cell(original_rows[i], 2) = <<"_","P","a","r","a","m","e","t","e","r">>}

OriginalKey(i) == << Cell(original_rows[i], 1), Cell(original_rows[i], 5) >>

\* Whether a mode is one of the selected modes (without regard to case, a blank
\* mode when "(empty)" is selected), or, when no modes are selected, is NORMAL
\* or is blank under a profile for which the blank mode is valid
ModeIsValid(mode) ==
    LET name == upper(strip(mode))
        modes == call.selected_modes.modes
    IN  IF call.selected_modes.given
        THEN \/ \E k \in 1..Len(modes) : modes[k] # <<"(","e","m","p","t","y",")">> /\ upper(modes[k]) = name
             \/ name = <<>> /\ \E k \in 1..Len(modes) : modes[k] = <<"(","e","m","p","t","y",")">>
        ELSE name = <<"N","O","R","M","A","L">> \/ (name = <<>> /\ config.empty_mode_is_valid)

\* The _Parameter rows that pass the mode filter, and those of them whose
\* alarm type is not empty or a placeholder
PassingRows == {i \in ParameterRows : ModeIsValid(Cell(original_rows[i], 3))}

PlaceholderType(alarm_type) == InList(strip(alarm_type), << <<"~">>, <<"-">>, <<>> >>)

PassingRealRows == {i \in PassingRows : ~PlaceholderType(Cell(original_rows[i], 5))}

\* Of the rows in S, exactly one row per key is emitted, built from the first
\* row of the key in file order, and nothing else is emitted; the dropped rows
\* of S are in none of the counters updated and not_found, and skipped_modes
\* counts the _Parameter rows that fail the mode filter and nothing else
OneRowPerKey(S) ==
    /\ \A i \in S :
         LET first == SetMin({k \in S : OriginalKey(k) = OriginalKey(i)})
             emitted == {j \in 1..Len(rows) : EmittedKey(j) = OriginalKey(i)}
         IN  /\ Cardinality(emitted) = 1
             /\ \A j \in emitted : source_rows[j].row = original_rows[first]
    /\ \A j \in 1..Len(rows) : \E i \in S : OriginalKey(i) = EmittedKey(j)
    /\ stats.updated + stats.not_found = Cardinality({OriginalKey(i) : i \in S})
    /\ stats.skipped_modes = Cardinality(ParameterRows \ PassingRows)

\* transform_reverse is in the loop over the original rows or has returned
MergingRows == call.fn = "transform_reverse" /\ pc \in {"original_rows", "returned"}

\* C19 as stated: among the original _Parameter rows that share a (tag name,
\* alarm type) key, exactly one is emitted, the first that passes the mode
\* filter; a row the mode filter rejects suppresses nothing; later passing rows
\* of the key are dropped and counted in none of updated, not_found and
\* skipped_modes.
C19_FirstPassingRowOfKey ==
    MergingRows => OneRowPerKey(PassingRows)

\* C19, amended: the same, among the original _Parameter rows whose alarm type
\* is not empty or a placeholder (~ or -); rows with such an alarm type are
\* never emitted.
C19_FirstPassingRealRowOfKey ==
    MergingRows => OneRowPerKey(PassingRealRows)

\* Two rows of one key were read and the first, which the mode filter rejects,
\* did not suppress the second; or both pass and only the first was emitted
C19_Witness ==
    /\ call.fn = "transform_reverse" /\ pc = "returned"
    /\ Len(original_rows) = 2
    /\ ParameterRows = {1, 2}
    /\ OriginalKey(1) = OriginalKey(2)
    /\ original_rows[1] # original_rows[2]
    /\ 1 \notin PassingRows
    /\ 2 \in PassingRealRows
    /\ Len(rows) = 1
    /\ source_rows[1].row = original_rows[2]
    /\ stats.skipped_modes = 1

\* Two different rows of one key pass the mode filter and only the first was
\* emitted; the second is in no counter
C19_WitnessDuplicate ==
    /\ call.fn = "transform_reverse" /\ pc = "returned"
    /\ Len(original_rows) = 2
    /\ PassingRealRows = {1, 2}
    /\ OriginalKey(1) = OriginalKey(2)
    /\ original_rows[1] # original_rows[2]
    /\ Len(rows) = 1
    /\ source_rows[1].row = original_rows[1]
    /\ stats.updated + stats.not_found = 1 /\ stats.skipped_modes = 0

(***************************************************************************)
(* Properties of the rows transform_forward emits for one tag              *)
(***************************************************************************)
\* The tags transform_forward walks, in the order it walks them
ForwardTags ==
    SortedTags({tag_record(schemas, t, call.unit_method, call.selected_modes) :
                   t \in kept_tags(schemas, call.selected_units, call.unit_method,
                                   call.selected_modes)})

\* The number of rows emitted for the i-th tag, and for the tags before it
EmittedFor(i) == Len(live_params(ForwardTags[i]))

RECURSIVE EmittedBefore(_)
EmittedBefore(i) == IF i = 1 THEN 0 ELSE EmittedBefore(i - 1) + EmittedFor(i - 1)

HfsLayout == config.phapro_headers = "HFS"

\* The tag-level columns of an output row after the Unit cell
TagLevelColumns == IF HfsLayout THEN 1..12 ELSE 1..11

\* What the tag-level column k holds for a tag
TagLevelValue(tag, k) ==
    LET tag_source == derive_tag_source(tag.tag_name, tag.point_type)[1]
        note == IF tag.point_type # <<>> THEN <<"P","o","i","n","t"," ","T","y","p","e"," ","="," ">> \o tag.point_type ELSE <<>>
    IN  IF HfsLayout
        THEN << tag.tag_name, tag.tag_name, tag.desc, tag.desc, tag.pid, tag.range_min,
                tag.range_max, tag.eng_units, tag_source, note, <<"E","n","a","b","l","e","d">>, <<"E","n","a","b","l","e","d">> >>[k]
        ELSE << tag.tag_name, OrTilde(tag.desc), OrTilde(tag.desc), tag.pid, tag.range_min,
                tag.range_max, OrTilde(tag.eng_units), tag_source, note, <<"E","n","a","b","l","e","d">>,
                <<"E","n","a","b","l","e","d">> >>[k]

\* The tag-level columns that are filled for every tag
AlwaysFilledColumns == IF HfsLayout THEN {1, 2, 5, 9, 11, 12} ELSE {1, 2, 3, 4, 7, 8, 10, 11}

\* An earlier tag of the same unit has emitted a row
UnitAlreadyShown(i) ==
    \E j \in 1..(i - 1) : EmittedFor(j) >= 1 /\ ForwardTags[j].unit = ForwardTags[i].unit

\* C20: in the forward output the tag-level cells (tag name, descriptions,
\* P&ID, range, engineering units, tag source, point-type note, tag enable
\* statuses) are filled on the first row emitted for a tag, also when earlier
\* entries of the tag were skipped, and blank on the later rows of the tag;
\* the Unit cell is filled only on the first emitted row of the first tag of
\* each unit.
C20_TagLevelCellsOnFirstEmittedRow ==
    ForwardReturned =>
        /\ Len(rows) = EmittedBefore(Len(ForwardTags) + 1)
        /\ \A i \in 1..Len(ForwardTags) :
             LET tag == ForwardTags[i]
                 first == EmittedBefore(i) + 1
             IN  EmittedFor(i) >= 1 =>
                   /\ \A k \in TagLevelColumns : Cell(rows[first], k) = TagLevelValue(tag, k)
                   /\ \A k \in AlwaysFilledColumns : Cell(rows[first], k) # <<>>
                   /\ Cell(rows[first], 0) = IF UnitAlreadyShown(i) THEN <<>> ELSE tag.unit
                   /\ \A r \in (first + 1)..(first + EmittedFor(i) - 1) :
                        \A k \in {0} \cup TagLevelColumns : Cell(rows[r], k) = <<>>

\* A tag whose first entry was skipped has two rows, and a later tag of the
\* same unit has a row
C20_Witness ==
    /\ ForwardReturned
    /\ \E i, j \in 1..Len(ForwardTags) :
         /\ i < j
         /\ ForwardTags[i].unit = ForwardTags[j].unit
         /\ ForwardTags[i].unit # <<>>
         /\ EmittedFor(i) >= 2
         /\ EmittedFor(j) >= 1
         /\ live_params(ForwardTags[i])[1] # ForwardTags[i].params[1]
         /\ Cell(rows[EmittedBefore(i) + 1], 1) = ForwardTags[i].tag_name
         /\ Cell(rows[EmittedBefore(j) + 1], 0) = <<>>

(***************************************************************************)
(* Properties of the mode filters                                          *)
(***************************************************************************)
ModeFilterApplied == pc = "returned" /\ call.fn = "mode_filter"

\* C21: transform_reverse keeps an original row of a mode exactly when
\* transform_forward keeps a parameter of that mode, for every mode text,
\* every selected_modes value and every profile.
C21_SameModeFilter ==
    ModeFilterApplied => result.reverse = result.forward

\* The two filters agree on every mode cell without surrounding whitespace
C21_SameModeFilterOnTrimmedModes ==
    ModeFilterApplied /\ strip(call.mode) = call.mode => result.reverse = result.forward

\* A mode cell with surrounding whitespace that the reverse filter keeps
C21_Witness ==
    /\ ModeFilterApplied
    /\ strip(call.mode) # call.mode
    /\ result.reverse
    /\ ~result.forward

(***************************************************************************)
(* Properties of the cells transform_reverse writes into a matched row     *)
(***************************************************************************)
ReverseRunning == call.fn = "transform_reverse"

\* The emitted rows that have an entry in the change-set
MatchedRows == {i \in 1..Len(rows) : ReverseRunning /\ source_rows[i].matched}

AlarmTypeOf(i) == Cell(source_rows[i].row, 5)

ChangesOf(i) == pha_changes[<<Cell(source_rows[i].row, 1), AlarmTypeOf(i)>>]

\* The new-limit texts that stand for "no limit"
NoLimitTexts == {<<>>, <<"~">>, <<"-","9","9","9","9","9","9","9">>} \cup {NA_TOKENS[k] : k \in 1..Len(NA_TOKENS)}

\* The merge stopped on the new limit of a matched row
MergeStoppedOnLimit == ReverseRunning /\ pc = "raised" /\ result.error = "OverflowError"

\* The value cell of the emitted matched rows follows the rule of column H
C22_ValueCellOfEmittedRows ==
    \A i \in MatchedRows :
        LET limit == ChangesOf(i).new_limit
            plain == remove(limit, ",")
        IN  Cell(rows[i], 7) =
              IF is_discrete(AlarmTypeOf(i)) THEN <<"~">>
              ELSE IF contains(<<"s","i","g","n","i","f","i","c","a","n","t"," ","c","h","a","n","g","e">>, lower(AlarmTypeOf(i))) THEN <<"-","-","-","-","-","-","-","-">>
              ELSE IF limit \in NoLimitTexts THEN <<"-","-","-","-","-","-","-","-">>
              ELSE IF FloatKind(plain) = "finite" THEN FormatNumber(plain)
              ELSE limit

\* C22: the value cell (7) of a matched row is "~" for a discrete alarm type,
\* "--------" for a significant-change type or a new limit that is empty, "~",
\* "-9999999" or an n/a token, and otherwise the new limit without thousands
\* separators, a whole number without decimal point; and for every new-limit
\* text the merge completes and emits the row.
C22_ValueCellAndMergeCompletes ==
    /\ C22_ValueCellOfEmittedRows
    /\ ~MergeStoppedOnLimit

\* A matched row whose new limit had a thousands separator and trailing zeros
C22_Witness ==
    /\ ReverseRunning
    /\ \E i \in MatchedRows :
         /\ ChangesOf(i).new_limit = <<"1",",","5","0","0",".","5","0">>
         /\ Cell(rows[i], 7) = <<"1","5","0","0",".","5">>

TrueLike == { <<"T","R","U","E">>, <<"E","N","A","B","L","E","D">>, <<"1">> }
FalseLike == { <<"F","A","L","S","E">>, <<"D","I","S","A","B","L","E","D">>, <<"0">> }

\* The cell k of the original row of the i-th emitted row, "" when the row ends before it
OriginalCellOf(i, k) == CellOr(source_rows[i].row, k, <<>>)

\* C23: the disabled-flag cell (25) of a matched row is "True" when the new
\* enable status is TRUE, ENABLED or 1 in any letter case, "False" when it is
\* FALSE, DISABLED or 0, and the original cell for any other or empty status.
C23_DisabledFlagNormalized ==
    \A i \in MatchedRows :
        LET status == ChangesOf(i).new_enable_status
        IN  Cell(rows[i], 25) =
              IF upper(status) \in TrueLike THEN <<"T","r","u","e">>
              ELSE IF upper(status) \in FalseLike THEN <<"F","a","l","s","e">>
              ELSE OriginalCellOf(i, 25)

\* One matched row had a true-like status in mixed case and got "True" in
\* place of another original cell, another had a status outside both sets
\* and kept its original cell
C23_Witness ==
    /\ ReverseRunning
    /\ pc = "returned"
    /\ \E i, j \in MatchedRows :
         /\ ChangesOf(i).new_enable_status = <<"E","n","a","b","l","e","d">>
         /\ OriginalCellOf(i, 25) # <<"T","r","u","e">>
         /\ Cell(rows[i], 25) = <<"T","r","u","e">>
         /\ ChangesOf(j).new_enable_status \notin {<<>>} \cup TrueLike \cup FalseLike
         /\ upper(ChangesOf(j).new_enable_status) \notin TrueLike \cup FalseLike
         /\ Cell(rows[j], 25) = OriginalCellOf(j, 25)
         /\ OriginalCellOf(j, 25) # <<>>

\* "R" for a tag source that names the safety manager, "M" otherwise
EnforcementOf(i) ==
    IF contains(<<"s","a","f","e","t","y"," ","m","a","n","a","g","e","r">>, lower(ChangesOf(i).tag_source)) THEN <<"R">> ELSE <<"M">>

\* C24: transform_reverse changes the priority-enforcement cell (11) only
\* when the original cell 11 was non-blank and the value-enforcement cell (8)
\* only when the row has an alarm name in cell 6; the value written is "R"
\* when the entry's tag source contains "safety manager" in any letter case
\* and "M" otherwise.
C24_NoEnforcementIntroduced ==
    ReverseRunning =>
        \A i \in 1..Len(rows) :
            IF source_rows[i].matched
            THEN /\ Cell(rows[i], 11) = IF strip(OriginalCellOf(i, 11)) # <<>>
                                        THEN EnforcementOf(i) ELSE OriginalCellOf(i, 11)
                 /\ Cell(rows[i], 8) = IF OriginalCellOf(i, 6) # <<>>
                                       THEN EnforcementOf(i) ELSE OriginalCellOf(i, 8)
            ELSE /\ Cell(rows[i], 11) = OriginalCellOf(i, 11)
                 /\ Cell(rows[i], 8) = OriginalCellOf(i, 8)

\* A matched row of a safety-manager tag had "M" in cell 11 and got "R" in
\* the cells 8 and 11; another matched row without alarm name and without
\* cell 11 kept both cells blank
C24_Witness ==
    /\ ReverseRunning
    /\ pc = "returned"
    /\ \E i, j \in MatchedRows :
         /\ OriginalCellOf(i, 11) = <<"M">>
         /\ OriginalCellOf(i, 6) # <<>>
         /\ Cell(rows[i], 11) = <<"R">>
         /\ Cell(rows[i], 8) = <<"R">>
         /\ OriginalCellOf(j, 6) = <<>>
         /\ OriginalCellOf(j, 11) = <<>>
         /\ Cell(rows[j], 8) = <<>>
         /\ Cell(rows[j], 11) = <<>>

(***************************************************************************)
(* Properties of the unit transform_forward gives a tag                    *)
(***************************************************************************)
\* The tags that have a parameter of a selected mode
TagsWithParams ==
    {t \in DOMAIN schemas.DCSVariable : normal_params(schemas, t, call.selected_modes) # <<>>}

\* What extract_unit returns for the tag under the method of the call
ExtractedUnit(t) == extract_unit(t, schemas.DCSVariable[t].assetPath, call.unit_method)

\* The unit cell (index 10) of the tag's _DCS row, "" without such a row
DcsUnitCell(t) == DictGet(schemas.DCS, t, NoRecord).unit

AssetChildMethod == upper(call.unit_method) = <<"A","S","S","E","T","_","C","H","I","L","D">>

\* The extracted unit, or under asset-child the unit cell of the _DCS row
UnitOrDcsCell(t) ==
    IF AssetChildMethod /\ DcsUnitCell(t) # <<>> THEN DcsUnitCell(t) ELSE ExtractedUnit(t)

\* The unit equals, contains or is contained in one of the selected values
UnitMatches(unit, selected) ==
    \E k \in 1..Len(selected) :
        \/ selected[k] = unit
        \/ contains(selected[k], unit)
        \/ contains(unit, selected[k])

\* The filter, the distinct-units stat, the Unit cells and the order of the
\* output all use the unit U gives a tag
UnitIsUsed(U(_)) ==
    LET kept == {t \in TagsWithParams :
                    call.selected_units # <<>> => UnitMatches(U(t), call.selected_units)}
        shown == {r \in 1..Len(rows) : Cell(rows[r], 1) # <<>>}
    IN  /\ stats.tags = Cardinality(kept)
        /\ stats.units = {U(t) : t \in kept}
        /\ \A r \in shown : Cell(rows[r], 1) \in kept
        /\ \A r \in shown : Cell(rows[r], 0) \in {<<>>, U(Cell(rows[r], 1))}
        /\ \A r1, r2 \in shown :
             r1 < r2 =>
               LET t1 == Cell(rows[r1], 1)
                   t2 == Cell(rows[r2], 1)
               IN  \/ TextLess(U(t1), U(t2))
                   \/ U(t1) = U(t2) /\ TextLess(t1, t2) /\ Cell(rows[r2], 0) = <<>>

\* C26: the unit of every tag in transform_forward (filter, distinct-units
\* stat, sort, Unit cell) is the value extract_unit returns for the tag's
\* name and asset path under the configured method, for every method
\* including asset-child; with selected_units given a tag is kept exactly
\* when that unit equals, contains or is contained in a selected value.
C26_UnitIsExtractUnit ==
    ForwardReturned => UnitIsUsed(ExtractedUnit)

\* C26 as the code has it: under asset-child a non-empty unit cell of the
\* tag's _DCS row takes the place of the extracted unit.
C26_UnitIsExtractUnitOrDcsCell ==
    ForwardReturned => UnitIsUsed(UnitOrDcsCell)

\* Under asset-child with a unit selected, one kept tag took its unit from the
\* _DCS row and another, without _DCS row, from its asset path
C26_Witness ==
    /\ ForwardReturned
    /\ AssetChildMethod
    /\ call.selected_units # <<>>
    /\ \E r1, r2 \in 1..Len(rows) :
         /\ Cell(rows[r1], 1) # <<>>
         /\ Cell(rows[r1], 0) = DcsUnitCell(Cell(rows[r1], 1))
         /\ Cell(rows[r1], 0) # ExtractedUnit(Cell(rows[r1], 1))
         /\ Cell(rows[r2], 1) # <<>>
         /\ DcsUnitCell(Cell(rows[r2], 1)) = <<>>
         /\ Cell(rows[r2], 0) = ExtractedUnit(Cell(rows[r2], 1))

(***************************************************************************)
(* Properties of parse_abb_excel                                           *)
(***************************************************************************)
AbbParsing == call.fn = "transform_forward_abb" /\ call.readable /\ call.columns # <<>>

\* The rows of the frame that have a tag name, in the order read
NamedRows ==
    SelectSeq(file_rows,
              LAMBDA row : LET name == strip(CellText(row[name_col(call.columns)]))
                           IN  name # <<>> /\ name # <<"n","a","n">>)

\* The column named prefix + suffix; 0: the frame has none
OwnColumn(prefix, suffix) ==
    LET hits == {i \in 1..Len(call.columns) : upper(call.columns[i]) = prefix \o suffix}
    IN  IF hits = {} THEN 0 ELSE SetMax(hits)

\* The value of an alarm field read from its own column, the default when the
\* column is absent
OwnInt(row, prefix, suffix, default) ==
    IF OwnColumn(prefix, suffix) = 0 THEN default
    ELSE to_int(row[OwnColumn(prefix, suffix)], default)

OwnLevel(row, suffix) ==
    LET col == OwnColumn(<<"A","E","L","E","V","E","L">>, suffix)
    IN  IF col = 0 \/ row[col].t = "nan" \/ FloatKind(CellText(row[col])) = "error"
        THEN <<"-","9","9","9","9","9","9","9">>
        ELSE to_float(row[col], <<"-","9","9","9","9","9","9","9">>)

\* C27: parse_abb_excel returns for every row with a tag name a record with
\* one alarm per configured suffix in configured order, and each alarm's
\* enabled flag, limit and severity come from the AECONF/AELEVEL/AESEV
\* columns of its own suffix (the H alarm never from the HH or HHH columns),
\* with the defaults 0, -9999999 and 1 for an absent or unparsable column.
C27_AlarmsReadOwnColumns ==
    AbbParsing =>
        /\ Len(abb_tags) = Len(NamedRows)
        /\ \A i \in 1..Len(abb_tags) :
             /\ Len(abb_tags[i].alarms) = Len(abb_alarm_types)
             /\ \A k \in 1..Len(abb_alarm_types) :
                  LET alarm == abb_tags[i].alarms[k]
                      suffix == abb_alarm_types[k][1]
                  IN  /\ alarm.suffix = suffix
                      /\ alarm.type = abb_alarm_types[k][2]
                      /\ alarm.enabled = OwnInt(NamedRows[i], <<"A","E","C","O","N","F">>, suffix, <<"0">>)
                      /\ alarm.level = OwnLevel(NamedRows[i], suffix)
                      /\ alarm.severity = OwnInt(NamedRows[i], <<"A","E","S","E","V">>, suffix, <<"1">>)

\* One record per named row, seven alarms each in configured order
C27_OneAlarmPerSuffix ==
    AbbParsing =>
        /\ Len(abb_tags) = Len(NamedRows)
        /\ \A i \in 1..Len(abb_tags) :
             /\ abb_tags[i].tag_name = strip(CellText(NamedRows[i][name_col(call.columns)]))
             /\ [k \in 1..Len(abb_tags[i].alarms) |-> abb_tags[i].alarms[k].suffix]
                  = [k \in 1..Len(abb_alarm_types) |-> abb_alarm_types[k][1]]

\* In a sheet with the columns of every suffix the H alarm holds the values
\* of the HHH columns
C27_Witness ==
    /\ AbbParsing
    /\ OwnColumn(<<"A","E","C","O","N","F">>, <<"H","H","H">>) # 0
    /\ \E i \in 1..Len(abb_tags) :
         /\ abb_tags[i].alarms[1].suffix = <<"H">>
         /\ NamedRows[i][OwnColumn(<<"A","E","S","E","V">>, <<"H">>)] = Num(<<"2",".","0">>)
         /\ NamedRows[i][OwnColumn(<<"A","E","S","E","V">>, <<"H","H","H">>)] = Num(<<"5">>)
         /\ abb_tags[i].alarms[1].severity = <<"5">>

(***************************************************************************)
(* Properties of map_priority against the priority table of transform_reverse *)
(***************************************************************************)
\* The priority names the table of transform_reverse can write into a DCS row
ReverseTableNames == {priority_map[k][2] : k \in 1..Len(priority_map)}

MapPriorityReturned == pc = "returned" /\ call.fn = "map_priority"

\* C28: for every priority name the reverse table can write (Urgent,
\* Critical, High, Medium, Low, Journal, None, NOACTION, EMERGNCY) and every
\* disabled flag, the code map_priority gives the name is mapped back to the
\* same name by the priority table of transform_reverse.
C28_PriorityRoundTrip ==
    (MapPriorityReturned /\ call.priority \in ReverseTableNames) =>
        priority_cell(result[1]) = call.priority

\* The round trip holds for every name of the table but EMERGNCY
C28_PriorityRoundTripButEmergncy ==
    (MapPriorityReturned /\ call.priority \in ReverseTableNames \ {<<"E","M","E","R","G","N","C","Y">>}) =>
        priority_cell(result[1]) = call.priority

\* EMERGNCY is given the code N, which the reverse table writes as None
C28_Witness ==
    /\ MapPriorityReturned
    /\ call.priority = <<"E","M","E","R","G","N","C","Y">>
    /\ result[1] = <<"N">>
    /\ priority_cell(result[1]) = <<"N","o","n","e">>

(***************************************************************************)
(* Properties of the stats of transform_forward against its rows           *)
(***************************************************************************)
\* The rows that show a tag name: the first row of each tag that has rows
TagRows == {r \in 1..Len(rows) : Cell(rows[r], 1) # <<>>}

\* The units the output shows
ShownUnits == {Cell(rows[r], 0) : r \in {q \in 1..Len(rows) : Cell(rows[q], 0) # <<>>}}

\* The tags of the list `tags` that emit no row
SilentTags == {i \in 1..Len(ForwardTags) : EmittedFor(i) = 0}

\* C29: after transform_forward stats.alarms is the number of data rows and
\* stats.tags the number of tags that have a data row (the rows with a
\* tag-name cell); a tag whose surviving parameters all have an empty or
\* placeholder alarm type adds to neither the tag count nor the units.
C29_StatsCountTagsWithRows ==
    ForwardReturned =>
        /\ stats.alarms = Len(rows)
        /\ stats.tags = Cardinality(TagRows)
        /\ stats.units = ShownUnits

\* The alarm count is the number of rows; the tag count and the units are
\* those of every tag of the list, with or without rows
C29_StatsCountKeptTags ==
    ForwardReturned =>
        /\ stats.alarms = Len(rows)
        /\ stats.tags = Cardinality(TagRows) + Cardinality(SilentTags)
        /\ stats.units = {ForwardTags[i].unit : i \in 1..Len(ForwardTags)}

\* A tag without any row is counted while another tag has a row
C29_Witness ==
    /\ ForwardReturned
    /\ SilentTags # {}
    /\ TagRows # {}
    /\ stats.tags = Cardinality(TagRows) + 1

(***************************************************************************)
(* C30: tag names of the rows transform_reverse_abb emits                  *)
(***************************************************************************)
ReverseAbbReturned == pc = "returned" /\ call.fn = "transform_reverse_abb"

\* The tag-name and alarm-type cells of the i-th data row of the export
AbbTagCell(i) ==
    abb_cell(rows_list[i], abb_col(headers, << <<"N","e","w"," ","T","a","g"," ","N","a","m","e">>, <<"S","t","a","r","t","i","n","g"," ","T","a","g"," ","N","a","m","e">>,
                                               <<"T","a","g"," ","N","a","m","e">> >>, 1))

AbbTypeCell(i) ==
    abb_cell(rows_list[i], abb_col(headers, << <<"N","e","w"," ","A","l","a","r","m"," ","T","y","p","e">>,
                                               <<"S","t","a","r","t","i","n","g"," ","A","l","a","r","m"," ","T","y","p","e">> >>, 11))

\* The tag the i-th data row of the export belongs to: the last tag name at
\* or above it
RECURSIVE AbbTagOfRow(_)
AbbTagOfRow(i) ==
    IF i = 0 THEN <<>>
    ELSE IF ~BlankRow(rows_list[i]) /\ AbbTagCell(i) # <<>> THEN AbbTagCell(i)
    ELSE AbbTagOfRow(i - 1)

\* The data rows that are emitted, in order: those with an alarm type
AbbEmittedFrom ==
    SelectSeq([i \in 1..Len(rows_list) |-> i],
              LAMBDA i : ~BlankRow(rows_list[i]) /\ AbbTypeCell(i) # <<>>)

\* The tag an emitted row is attributed to by blank propagation over the
\* Tag Name cells of the output
RECURSIVE AbbAttributed(_)
AbbAttributed(j) ==
    IF j = 0 THEN <<>>
    ELSE IF Cell(rows[j], 0) # <<>> THEN Cell(rows[j], 0)
    ELSE AbbAttributed(j - 1)

\* A data row that carries a tag name and has a blank alarm type
AbbNamedRowNotEmitted ==
    \E i \in 1..Len(rows_list) :
        ~BlankRow(rows_list[i]) /\ AbbTagCell(i) # <<>> /\ AbbTypeCell(i) = <<>>

\* C30: every row transform_reverse_abb emits is attributed, by blank
\* propagation over the Tag Name cells of the output, to the tag its PHA-Pro
\* row belongs to, also when the PHA-Pro row that carries the tag name has a
\* blank alarm type and is not emitted
C30_EmittedRowsAttributedToTheirTag ==
    ReverseAbbReturned =>
        /\ Len(rows) = Len(AbbEmittedFrom)
        /\ \A j \in 1..Len(rows) : AbbAttributed(j) = AbbTagOfRow(AbbEmittedFrom[j])

\* C30, where every PHA-Pro row that carries a tag name is emitted: every
\* emitted row is attributed to the tag its PHA-Pro row belongs to
C30_AttributedWhenNamedRowsEmitted ==
    (ReverseAbbReturned /\ ~AbbNamedRowNotEmitted) =>
        /\ Len(rows) = Len(AbbEmittedFrom)
        /\ \A j \in 1..Len(rows) : AbbAttributed(j) = AbbTagOfRow(AbbEmittedFrom[j])

\* C30: a tag-name row with a blank alarm type is followed by an emitted row
\* of the same tag that has a blank tag-name cell
C30_Witness ==
    /\ ReverseAbbReturned
    /\ \E j \in 1..Len(rows) :
          LET i == AbbEmittedFrom[j]
          IN  /\ i > 1
              /\ AbbTagCell(i) = <<>>
              /\ AbbTagCell(i - 1) # <<>>
              /\ AbbTypeCell(i - 1) = <<>>

(***************************************************************************)
(* C25: the stats of a call on a transformer that has been called before   *)
(***************************************************************************)
SessionReturned ==
    /\ pc = "returned"
    /\ call # <<>>
    /\ call.fn \in {"transform_forward", "transform_forward_abb", "transform_reverse_abb",
                    "transform_reverse"}

\* The keys of the stats dict each transform creates
StatsKeys ==
    CASE call.fn = "transform_forward" -> {"tags", "alarms", "units", "skipped_modes"}
      [] call.fn = "transform_reverse" ->
            {"tags", "alarms", "units", "updated", "not_found", "skipped_modes"}
      [] OTHER -> {"tags", "alarms", "units"}

\* The tags and the units the running call has counted in its own input
TagsOfThisCall ==
    CASE call.fn = "transform_forward" ->
            Cardinality(kept_tags(schemas, call.selected_units, call.unit_method,
                                  call.selected_modes))
      [] call.fn = "transform_forward_abb" -> Len(abb_tags)
      [] OTHER -> Cardinality(seen_tags)

UnitsOfThisCall ==
    CASE call.fn = "transform_forward" ->
            {final_unit(schemas, t, call.unit_method) :
                t \in kept_tags(schemas, call.selected_units, call.unit_method,
                                call.selected_modes)}
      [] call.fn = "transform_forward_abb" -> {config.unit_value}
      [] OTHER -> {}

\* C25: the stats a successful call returns count only the input of that
\* call, whatever calls were made on the transformer before: as many alarms as
\* rows emitted, the tags and units of this input, the keys of this transform;
\* and a stats dict an earlier call returned still has the value it was
\* returned with
C25_StatsFreshPerCall ==
    /\ SessionReturned =>
          /\ result.stats = stats
          /\ DOMAIN stats = StatsKeys
          /\ stats.alarms = Len(rows)
          /\ stats.tags = TagsOfThisCall
          /\ stats.units = UnitsOfThisCall
          /\ call.fn = "transform_reverse" =>
                /\ stats.updated = Cardinality({i \in 1..Len(source_rows) :
                                                   source_rows[i].matched})
                /\ stats.updated + stats.not_found = Len(rows)
                /\ stats.skipped_modes <= Len(original_rows)
    /\ \A k \in 1..Len(returned) :
          returned[k].obj = stats_obj => returned[k].stats = stats

\* C25: a third successful call returns after two calls that counted alarms,
\* of another transform than the second, with other stats
C25_Witness ==
    /\ SessionReturned
    /\ Len(returned) = 2
    /\ returned[1].stats.alarms > 0
    /\ returned[2].stats.alarms > 0
    /\ stats.alarms > 0
    /\ DOMAIN stats # DOMAIN returned[2].stats
    /\ stats.alarms < returned[2].stats.alarms

====
